---- MODULE Spec2Model ----
(***************************************************************************)
(* Fresh-wallet detection engine of defilopafreshbot.                      *)
(*                                                                         *)
(* The model covers the chain walker (FreshWalletDetector.detectFreshWallet)*)
(* the pattern analyzer (TransactionAnalyzer), the parts of the ledger     *)
(* client they call (SolanaService) and the scan orchestrator              *)
(* (FreshWalletDetector.scanExchangeWallets).                              *)
(*                                                                         *)
(* The ledger is the environment.  An account's transaction history is     *)
(* fixed when a behaviour starts; the transient failures of single ledger   *)
(* requests (a signature listing that throws, a detail fetch that yields   *)
(* null, a count request that fails) and the content of the time window    *)
(* of a source wallet are inputs drawn when the request is made.           *)
(* Amounts are lamports; amountSOL is carried as its lamport numerator.    *)
(***************************************************************************)
EXTENDS Integers, Sequences, FiniteSets, TLC

\* ------------------------------------------------------------------------
\* Bounds of the model
\* ------------------------------------------------------------------------

\* largest hop budget a caller configures explicitly (0 .. MaxHopsCfg)
MaxHopsCfg == 2

\* number of scanExchangeWallets calls made on one detector
MaxScans == 2

\* largest amount and filter bound given to matchesFilter, in tenths of a SOL
MaxAmount == 12

\* largest maxRetries passed to retryWithBackoff when it is called directly
MaxRetriesArg == 6

\* longest account history given to the analyzer when it is called directly
MaxHistory == 5

\* most detail fetches that fail within one getFirstTransactions call there
MaxDropped == 1

\* the longest signature listing of the account the client is called on
MaxSignatures == 4

\* the longest listing getRecentTransactions pages through, in full pages
MaxPages == 2

\* the executeScan calls that interleave on the one bot service
MaxRuns == 2

\* most rate-limited requests one walk of a destination issues
MaxWalkRequests == 1

\* ------------------------------------------------------------------------
\* Program constants
\* ------------------------------------------------------------------------

\* FreshWalletDetector.constructor: config.maxHops || 3
DefaultMaxHops == 3

\* scanExchangeWallets passes maxTxToTry = 10 to detectFreshWallet
MaxTxToTry == 10

\* getTransactionType / getWithdrawDestination: 1000 lamports
Threshold == 1000

\* analyzeFirstTransactions: withdrawnPercentage >= 80
HopPercentage == 80

\* getTotalTransactionCount: { limit: 100 }
CountCap == 100

\* SolanaService.constructor: this.MIN_REQUEST_INTERVAL = 200
MIN_REQUEST_INTERVAL == 200

\* SolanaService.constructor: this.parallelBatchSize = 3
parallelBatchSize == 3

\* getRecentTransactions: const batchSize = 100, the limit of every
\* signature page (getFirstTransactions: { limit: 100, before })
batchSize == 100

\* getFirstTransactions: while (allSignatures.length < 1000)
SafetyLimit == 1000

\* getRecentTransactions: shouldFetchAll = limit === 0 || limit > 500
FetchAllAbove == 500

\* getRecentTransactions(walletAddress, limit = 100, maxAgeHours = 24)
DefaultRecentLimit == 100

DefaultMaxAgeHours == 24

\* getOutgoingSOLTransactions: if (sourceDiff < 10000) continue
MinSourceDiff == 10000

\* getOutgoingSOLTransactions: if (recipientGain >= 1000)
MinRecipientGain == 1000

\* retryWithBackoff(fn, maxRetries = 3)
DefaultMaxRetries == 3

\* retryWithBackoff: Math.min(1000 * Math.pow(2, attempt), 8000)
BackoffBase == 1000
BackoffCap == 8000

\* ------------------------------------------------------------------------
\* Addresses
\* ------------------------------------------------------------------------

NULL == "null"
UNDEF == "undefined"

SYS == "11111111111111111111111111111111"

\* the wallets the detector is constructed with, in insertion order
ExchangeWalletsList == <<"S1", "S2">>

Wallets == {"A", "B", "C"}

Range(s) == {s[i] : i \in 1..Len(s)}

Sources == Range(ExchangeWalletsList)

\* an exclusion list that is empty
isSystemProgramNever(address) == FALSE

\* SolanaService.isSystemProgram
isSystemProgram(address) ==
  address \in {SYS,
               "TokenkegQfeZyiNwAJbNbGKPFXCWuBvf9Ss623VQ5DA",
               "ATokenGPvbdGVxr1b2hvZbsiqW5xWH25efTNsLJA8knL",
               "ComputeBudget111111111111111111111111111111",
               "SysvarRent111111111111111111111111111111111",
               "SysvarC1ock11111111111111111111111111111111"}

\* ------------------------------------------------------------------------
\* Ledger content: parsed transactions and account histories
\* ------------------------------------------------------------------------

\* a native transfer of amt lamports from src to dst (fee 5 paid by src)
Xfer(sig, time, src, dst, amt) ==
  [signature    |-> sig,
   blockTime    |-> time,
   accountKeys  |-> <<src, dst, SYS>>,
   preBalances  |-> <<100000, 0, 1>>,
   postBalances |-> <<100000 - amt - 5, amt, 1>>]

\* the histories an account can have, oldest transaction first
HistoriesOf(a) ==
  LET in1   == Xfer("i1" \o a, 1, "S1", a, 20000)
      in2   == Xfer("i2" \o a, 2, "S2", a, 20000)
      dust  == Xfer("d1" \o a, 1, "S1", a, 500)
      out(x, amt) == Xfer("o1" \o a, 3, a, x, amt)
  IN  {<< >>, <<in1>>, <<in1, in2>>, <<dust>>, <<out("S1", 19000)>>}
      \cup {<<in1, out(x, 19000)>> : x \in (Wallets \cup {"S1"}) \ {a}}
      \cup {<<in1, out(x, 5000)>>  : x \in {"S1"}}

Reverse(s) == [i \in 1..Len(s) |-> s[Len(s) + 1 - i]]

\* every ledger: one history per wallet
Ledgers == {l \in [Wallets -> UNION {HistoriesOf(a) : a \in Wallets}] :
              \A a \in Wallets : l[a] \in HistoriesOf(a)}

\* ------------------------------------------------------------------------
\* SolanaService: the ledger requests the detector relies on
\* ------------------------------------------------------------------------

\* Array.prototype.sort with the comparator of getFirstTransactions:
\* ascending blockTime, 0 when a blockTime is missing (stable sort)
Falsy(t) == t = 0

RECURSIVE InsertSorted(_, _)
InsertSorted(x, sorted) ==
  IF sorted = << >> THEN <<x>>
  ELSE IF (LET a == Head(sorted)
                b == x
            IN  IF Falsy(a.blockTime) \/ Falsy(b.blockTime) THEN 0
                ELSE a.blockTime - b.blockTime) <= 0
       THEN <<Head(sorted)>> \o InsertSorted(x, Tail(sorted))
       ELSE <<x>> \o sorted

RECURSIVE SortChronologically(_)
SortChronologically(sigs) ==
  IF sigs = << >> THEN << >>
  ELSE InsertSorted(Head(sigs), SortChronologically(Tail(sigs)))

\* what allSignatures.sort can leave: the comparator answers 0 for an entry
\* without blockTime, so with such an entry it is not a consistent comparator
\* and the order is whatever the engine's sort makes of it
Sorts(sigs) ==
  IF \A i \in 1..Len(sigs) : ~Falsy(sigs[i].blockTime)
  THEN {SortChronologically(sigs)}
  ELSE {[i \in 1..Len(sigs) |-> sigs[p[i]]] : p \in Permutations(1..Len(sigs))}

Min(a, b) == IF a < b THEN a ELSE b

Slice(s, n) == SubSeq(s, 1, Min(n, Len(s)))

\* getFirstTransactions(walletAddress, limit) when no signature request
\* throws: signatures is the account's signature history as the RPC lists
\* it (newest first), dropped the signatures whose detail fetch fails
\* (getTransactionDetails returns null and the entry is filtered out)
getFirstTransactions(signatures, limit, dropped) ==
  LET allSignatures == SortChronologically(signatures)
      firstN == Slice(allSignatures, limit)
  IN  SelectSeq(firstN, LAMBDA tx : tx.signature \notin dropped)

\* getTotalTransactionCount: the length of the first page, capped;
\* 0 when the request fails (the catch block)
getTotalTransactionCount(signatures, failed) ==
  IF failed THEN 0
  ELSE IF Len(signatures) < CountCap THEN Len(signatures) ELSE CountCap

\* ------------------------------------------------------------------------
\* TransactionAnalyzer
\* ------------------------------------------------------------------------

\* Array.prototype.indexOf, 1-based; 0 stands for -1
RECURSIVE IndexFrom(_, _, _)
IndexFrom(s, x, i) ==
  IF i > Len(s) THEN 0 ELSE IF s[i] = x THEN i ELSE IndexFrom(s, x, i + 1)

indexOf(s, x) == IndexFrom(s, x, 1)

\* what a call yields when an exception leaves it
THROWN == "thrown"

\* a property read of null or undefined (a TypeError): the parsed transaction
\* is null, or it has no meta
NoMessage(transaction) == "accountKeys" \notin DOMAIN transaction
NoMeta(transaction) == "preBalances" \notin DOMAIN transaction

\* lines 18-37, the body of the try block; undefined - undefined is NaN,
\* which compares false with the threshold both ways
ClassifyTransaction(walletAddress, transaction) ==
  IF NoMessage(transaction) THEN THROWN
  ELSE LET walletIndex == indexOf(transaction.accountKeys, walletAddress)
       IN  IF walletIndex = 0 THEN "UNKNOWN"
           ELSE IF NoMeta(transaction) THEN THROWN
           ELSE IF walletIndex > Len(transaction.preBalances)
                   \/ walletIndex > Len(transaction.postBalances) THEN "UNKNOWN"
           ELSE LET diff == transaction.postBalances[walletIndex]
                              - transaction.preBalances[walletIndex]
                IN  IF diff > Threshold THEN "RECEIVE"
                    ELSE IF diff < -Threshold THEN "WITHDRAW"
                    ELSE "UNKNOWN"

\* getTransactionType without its catch block
getTransactionTypeUncaught(walletAddress, transaction) ==
  ClassifyTransaction(walletAddress, transaction)

getTransactionType(walletAddress, transaction) ==
  LET type == ClassifyTransaction(walletAddress, transaction)
  IN  IF type = THROWN THEN "UNKNOWN" ELSE type

\* the ledgers the scans run on: the destinations of the source wallets'
\* transfers are A and B, C is reached by relay only
ScanLedgers ==
  {l \in Ledgers :
     /\ Len(l["A"]) >= 1 /\ getTransactionType("A", l["A"][1]) = "RECEIVE"
     /\ Len(l["B"]) = 1 /\ getTransactionType("B", l["B"][1]) = "RECEIVE"
     /\ l["C"] = << >>}

\* lines 64-76: the loop over the account keys
RECURSIVE FirstGainer(_, _, _)
FirstGainer(transaction, sourceIndex, i) ==
  IF i > Len(transaction.accountKeys) THEN NULL
  ELSE IF i # sourceIndex
          /\ ~isSystemProgram(transaction.accountKeys[i])
          /\ i <= Len(transaction.preBalances) /\ i <= Len(transaction.postBalances)
          /\ transaction.postBalances[i] - transaction.preBalances[i] > Threshold
       THEN transaction.accountKeys[i]
       ELSE FirstGainer(transaction, sourceIndex, i + 1)

\* lines 52-78, the body of the try block
FindDestination(sourceWallet, transaction) ==
  IF NoMessage(transaction) THEN THROWN
  ELSE LET sourceIndex == indexOf(transaction.accountKeys, sourceWallet)
       IN  IF sourceIndex = 0 THEN NULL
           ELSE IF NoMeta(transaction) THEN THROWN
           ELSE FirstGainer(transaction, sourceIndex, 1)

getWithdrawDestination(sourceWallet, transaction) ==
  LET destination == FindDestination(sourceWallet, transaction)
  IN  IF destination = THROWN THEN NULL ELSE destination

RECURSIVE SumDiff(_, _, _)
SumDiff(walletAddress, txs, sign) ==
  IF txs = << >> THEN 0
  ELSE LET tx == Head(txs)
           walletIndex == indexOf(tx.accountKeys, walletAddress)
           diff == IF walletIndex = 0 THEN 0
                   ELSE sign * (tx.postBalances[walletIndex] - tx.preBalances[walletIndex])
       IN  diff + SumDiff(walletAddress, Tail(txs), sign)

getTransactionAmounts(walletAddress, receiveTxs, withdrawTxs) ==
  [totalReceived  |-> SumDiff(walletAddress, receiveTxs, 1),
   totalWithdrawn |-> SumDiff(walletAddress, withdrawTxs, -1)]

\* SendsMost with a strict comparison
SendsMostStrictly(amounts) ==
  amounts.totalWithdrawn * 100 > HopPercentage * amounts.totalReceived

\* (withdrawn / received) * 100 >= 80; received > 0 whenever it is evaluated
SendsMost(amounts) ==
  amounts.totalWithdrawn * 100 >= HopPercentage * amounts.totalReceived

Analysis(pattern, receives, withdraws, nextWallet) ==
  [pattern |-> pattern, receives |-> receives, withdraws |-> withdraws,
   nextWallet |-> nextWallet]

analyzeFirstTransactions(walletAddress, signatures, limit, dropped) ==
  LET transactions == getFirstTransactions(signatures, limit, dropped)
      receives  == SelectSeq(transactions,
                     LAMBDA tx : getTransactionType(walletAddress, tx) = "RECEIVE")
      withdraws == SelectSeq(transactions,
                     LAMBDA tx : getTransactionType(walletAddress, tx) = "WITHDRAW")
  IN  IF Len(transactions) = 0 THEN Analysis("VIRGIN", 0, 0, UNDEF)
      ELSE IF Len(receives) = 1 /\ Len(withdraws) = 0
        THEN Analysis("ONLY_RECEIVING", 1, 0, UNDEF)
      ELSE IF Len(receives) > 1 /\ Len(withdraws) = 0
        THEN Analysis("ONLY_RECEIVING", Len(receives), 0, UNDEF)
      ELSE IF Len(receives) >= 1 /\ Len(withdraws) = 1
        THEN IF SendsMost(getTransactionAmounts(walletAddress, receives, withdraws))
             THEN Analysis("HOP", Len(receives), 1,
                           getWithdrawDestination(walletAddress, withdraws[1]))
             ELSE Analysis("OTHER", Len(receives), Len(withdraws), UNDEF)
      ELSE Analysis("OTHER", Len(receives), Len(withdraws), UNDEF)

\* the window sizes analyzeWithDynamicLimit tries in its loop
limitsToTry(maxTxToTry) == <<2, 3, 5, Min(10, maxTxToTry)>>

RECURSIVE DynamicFrom(_, _, _, _, _)
DynamicFrom(walletAddress, signatures, maxTxToTry, dropped, i) ==
  IF i > Len(limitsToTry(maxTxToTry))
  THEN analyzeFirstTransactions(walletAddress, signatures, maxTxToTry, dropped)
  ELSE LET analysis == analyzeFirstTransactions(walletAddress, signatures,
                                                limitsToTry(maxTxToTry)[i], dropped)
       IN  IF analysis.pattern = "ONLY_RECEIVING" /\ analysis.receives = 1 THEN analysis
           ELSE IF analysis.pattern = "HOP" THEN analysis
           ELSE IF analysis.pattern = "ONLY_RECEIVING" /\ analysis.receives > 1
             THEN DynamicFrom(walletAddress, signatures, maxTxToTry, dropped, i + 1)
           ELSE IF analysis.pattern = "VIRGIN" THEN analysis
           ELSE DynamicFrom(walletAddress, signatures, maxTxToTry, dropped, i + 1)

analyzeWithDynamicLimit(walletAddress, signatures, maxTxToTry, dropped) ==
  DynamicFrom(walletAddress, signatures, maxTxToTry, dropped, 1)

Verification(isFinal, reason, txCount) ==
  [isFinal |-> isFinal, reason |-> reason, txCount |-> txCount]

\* the verification without the test of lines 145-154: any number of
\* transactions passes when the first one is a receive
verifyFinalWalletLenient(walletAddress, signatures, countFailed, dropped) ==
  LET totalTxCount == getTotalTransactionCount(signatures, countFailed)
      transactions == getFirstTransactions(signatures, 1, dropped)
  IN  IF totalTxCount = 0 THEN Verification(TRUE, "virgin", 0)
      ELSE IF Len(transactions) = 0 THEN Verification(FALSE, "fetch_empty", 0)
      ELSE IF getTransactionType(walletAddress, transactions[1]) = "RECEIVE"
        THEN Verification(TRUE, "one_receive", 1)
      ELSE Verification(FALSE, "not_receive", 1)

verifyFinalWallet(walletAddress, signatures, countFailed, dropped) ==
  LET totalTxCount == getTotalTransactionCount(signatures, countFailed)
      transactions == getFirstTransactions(signatures, 1, dropped)
  IN  IF totalTxCount = 0 THEN Verification(TRUE, "virgin", 0)
      ELSE IF totalTxCount > 1 THEN Verification(FALSE, "many", totalTxCount)
      ELSE IF Len(transactions) = 0 THEN Verification(FALSE, "fetch_empty", 0)
      ELSE IF getTransactionType(walletAddress, transactions[1]) = "RECEIVE"
        THEN Verification(TRUE, "one_receive", 1)
      ELSE Verification(FALSE, "not_receive", 1)


\* ------------------------------------------------------------------------
\* Outgoing transfers of the source wallets (getOutgoingSOLTransactions)
\* ------------------------------------------------------------------------

Transfer(sig, time, src, dst, amt) ==
  [signature |-> sig, timestamp |-> time, amountSOL |-> amt, from |-> src, to |-> dst]

\* every transfer a source wallet ever sent, in the order they are processed
OutgoingOf(s) ==
  IF s = "S1"
  THEN <<Transfer("x1", 5, "S1", "A", 2000),
         Transfer("x2", 3, "S1", "A", 3000),
         Transfer("x3", 6, "S1", "B", 2100)>>
  ELSE <<Transfer("x4", 4, "S2", "A", 1900)>>

\* outgoingTxs.sort: newest first, entries without timestamp last
RECURSIVE InsertNewestFirst(_, _)
InsertNewestFirst(x, sorted) ==
  IF sorted = << >> THEN <<x>>
  ELSE IF (LET a == Head(sorted)
                b == x
            IN  IF Falsy(a.timestamp) THEN 1
                ELSE IF Falsy(b.timestamp) THEN -1
                ELSE b.timestamp - a.timestamp) <= 0
       THEN <<Head(sorted)>> \o InsertNewestFirst(x, Tail(sorted))
       ELSE <<x>> \o sorted

RECURSIVE SortNewestFirst(_)
SortNewestFirst(txs) ==
  IF txs = << >> THEN << >>
  ELSE InsertNewestFirst(Head(txs), SortNewestFirst(Tail(txs)))

\* what outgoingTxs.sort can leave: the comparator answers 1 both ways for two
\* entries without timestamp, so with two such entries it is no consistent
\* comparator and the order is the engine's choice
SortsNewestFirst(txs) ==
  IF Cardinality({i \in 1..Len(txs) : Falsy(txs[i].timestamp)}) <= 1
  THEN {SortNewestFirst(txs)}
  ELSE {[i \in 1..Len(txs) |-> txs[p[i]]] : p \in Permutations(1..Len(txs))}

\* the listing of one source wallet: window is the set of signatures of its
\* transfers that lie in the time window of this request
getOutgoingSOLTransactions(s, window) ==
  SortNewestFirst(SelectSeq(OutgoingOf(s), LAMBDA tx : tx.signature \in window))

AllSignatures == UNION {{OutgoingOf(s)[i].signature : i \in 1..Len(OutgoingOf(s))} : s \in Sources}

\* ------------------------------------------------------------------------
\* FreshWalletDetector: pure parts
\* ------------------------------------------------------------------------

Abs(x) == IF x < 0 THEN -x ELSE x

\* matchesFilter with both bounds excluded
matchesFilterExclusive(amount, filter) ==
  IF filter.type = "range" THEN amount > filter.min /\ amount < filter.max
  ELSE IF filter.type = "target"
    THEN Abs(amount - filter.value) * 100 < filter.value * filter.tolerance
  ELSE FALSE

\* filter.tolerance is carried in percent (0.10 is 10)
matchesFilter(amount, filter) ==
  IF filter.type = "range" THEN amount >= filter.min /\ amount <= filter.max
  ELSE IF filter.type = "target"
    THEN Abs(amount - filter.value) * 100 <= filter.value * filter.tolerance
  ELSE FALSE

Filters ==
  {[type |-> "range", min |-> 1000, max |-> 8000, value |-> 0, tolerance |-> 0],
   [type |-> "target", min |-> 0, max |-> 0, value |-> 2000, tolerance |-> 10]}

Modes == {"simple", "hopping"}

\* constructor: this.maxHops = config.maxHops || 3
\* config is << >> when the caller passes no maxHops, <<n>> otherwise
constructorMaxHops(config) ==
  IF config = << >> \/ config[1] = 0 THEN DefaultMaxHops ELSE config[1]

\* FreshWalletResult with the hop count off by one
FreshWalletResultCountsNodes(isFresh, finalWallet, path, reason, exchange, txInfo) ==
  [isFresh |-> isFresh, finalWallet |-> finalWallet, path |-> path,
   reason |-> reason, exchange |-> exchange, hops |-> Len(path),
   amount |-> txInfo.amount, signature |-> txInfo.signature,
   timestamp |-> txInfo.timestamp]

\* new FreshWalletResult({...}): hops is derived from the path
FreshWalletResult(isFresh, finalWallet, path, reason, exchange, txInfo) ==
  [isFresh |-> isFresh, finalWallet |-> finalWallet, path |-> path,
   reason |-> reason, exchange |-> exchange, hops |-> Len(path) - 1,
   amount |-> txInfo.amount, signature |-> txInfo.signature,
   timestamp |-> txInfo.timestamp]

\* isExchangeWallet without the membership test
isExchangeWalletNever(set, w) == FALSE

\* this.exchangeWallets.has(w)
isExchangeWallet(set, w) == w \in set

\* pathIncludes that compares with the current wallet only
pathIncludesLastOnly(path, w) == path[Len(path)] = w

\* path.includes(w)
pathIncludes(path, w) == w \in Range(path)

\* lines 268-271: keep the transfers matching the filter, tagged
retainMatching(txs, filter, exchangeName) ==
  LET kept == SelectSeq(txs, LAMBDA tx : matchesFilter(tx.amountSOL, filter))
  IN  [i \in 1..Len(kept) |->
         [signature |-> kept[i].signature, timestamp |-> kept[i].timestamp,
          amountSOL |-> kept[i].amountSOL, from |-> kept[i].from,
          to |-> kept[i].to, exchange |-> exchangeName]]

\* uniqueWallets without the has() test: the last transfer per destination
\* overwrites the earlier ones, the Map keeps the position of the first
RECURSIVE uniqueWalletsLastWins(_, _)
uniqueWalletsLastWins(txs, seen) ==
  IF txs = << >> THEN << >>
  ELSE IF Head(txs).to \in seen THEN uniqueWalletsLastWins(Tail(txs), seen)
  ELSE LET later == SelectSeq(Tail(txs), LAMBDA tx : tx.to = Head(txs).to)
           kept  == IF later = << >> THEN Head(txs) ELSE later[Len(later)]
       IN  <<kept>> \o uniqueWalletsLastWins(Tail(txs), seen \cup {Head(txs).to})

\* lines 275-280 and 291: the first transfer per destination, in Map order
RECURSIVE uniqueWallets(_, _)
uniqueWallets(txs, seen) ==
  IF txs = << >> THEN << >>
  ELSE IF Head(txs).to \in seen THEN uniqueWallets(Tail(txs), seen)
  ELSE <<Head(txs)>> \o uniqueWallets(Tail(txs), seen \cup {Head(txs).to})

RECURSIVE collectAll(_, _, _, _)
collectAll(wallets, window, filter, exchangeName) ==
  IF wallets = << >> THEN << >>
  ELSE retainMatching(getOutgoingSOLTransactions(Head(wallets), window),
                      filter, exchangeName)
       \o collectAll(Tail(wallets), window, filter, exchangeName)

\* txInfoOf that passes the slot where the signature belongs
txInfoOfNoSignature(tx) ==
  [amount |-> tx.amountSOL, signature |-> NULL, timestamp |-> tx.timestamp]

txInfoOf(tx) ==
  [amount |-> tx.amountSOL, signature |-> tx.signature, timestamp |-> tx.timestamp]


\* ------------------------------------------------------------------------
\* State
\* ------------------------------------------------------------------------

VARIABLES
  hist,                   \* ledger: wallet -> signature history, newest first
  configMaxHops,          \* config.maxHops as passed to the constructor
  maxHops,                \* this.maxHops
  processedWalletsCache,  \* this.processedWalletsCache
  scanPc,                 \* position of scanExchangeWallets
  scanCall,               \* exchangeName and mode of the running call
  allOutgoingTxs,         \* the retained transfers of the first pass
  walletsToAnalyze,       \* Array.from(uniqueWallets.values())
  analyzed,               \* loop counter of the second pass
  skipped,                \* cache hits of the second pass
  results,                \* results collected by the running call
  returned,               \* the array the last completed call returned
  scans,                  \* calls of scanExchangeWallets started so far
  walkPc,                 \* position of detectFreshWallet
  walk,                   \* arguments of the running detectFreshWallet
  path,
  currentWallet,
  hops,
  analysis,               \* result of the last analyzeWithDynamicLimit
  result,                 \* the FreshWalletResult the walk returned
  verifications,          \* verifyFinalWallet calls of the running walk
  analyses,               \* analyzeWithDynamicLimit calls of the running walk
  walked,                 \* destinations walked by the running scan call
  analyzerCalls,          \* analyzer calls made by the running scan call
  dynamic,                \* frame of an analyzeWithDynamicLimit call made directly
  direct,                 \* the last direct call of a transaction classifier
  transactions,           \* what its last getFirstTransactions returned
  filterCall,             \* a matchesFilter call and the retention made with it
  now,                    \* SolanaService: the time, in ms
  limiter,                \* this._queue and this.requestCount
  network,                \* the ledger requests issued by the running operation
  retry,                  \* frame of the running retryWithBackoff
  op,                     \* frame of the running SolanaService operation
  session,                \* the UserSession of the chat
  exec,                   \* frame of the running executeScan
  shown,                  \* what the bot last told the chat about a scan
  scanEntry,              \* the last entry into a scan and what came of it
  runs,                   \* the frames of the executeScan calls that interleave
  caches                  \* the Map objects the detectors of these calls created

detectorVars == <<configMaxHops, maxHops, processedWalletsCache>>
scanVars == <<scanPc, scanCall, allOutgoingTxs, walletsToAnalyze, analyzed, skipped, results,
              returned, scans, walked>>
walkVars == <<walkPc, walk, path, currentWallet, hops, analysis, result,
              verifications, analyses>>
analyzerVars == <<dynamic, transactions, direct>>
\* the state outside the detector
filterVars == <<filterCall>>
clientVars == <<now, limiter, network, retry, op>>
botVars == <<session, exec, shown, scanEntry>>
runVars == <<runs, caches>>
otherVars == <<analyzerVars, filterVars, clientVars, botVars, runVars>>
\* the state of the detector, its scans and its walks
engineVars == <<detectorVars, scanVars, walkVars, analyzerCalls>>
\* what a direct analyzer call and a direct filter call leave alone
exceptAnalyzer == <<hist, engineVars, filterVars, clientVars, botVars, direct, runVars>>
exceptFilter == <<hist, engineVars, analyzerVars, clientVars, botVars, runVars>>
exceptClient == <<hist, engineVars, analyzerVars, filterVars, botVars, runVars>>
vars == <<hist, detectorVars, scanVars, walkVars, analyzerCalls, otherVars>>

NoTxInfo == [amount |-> 0, signature |-> NULL, timestamp |-> 0]
NoWalk == [initialWallet |-> NULL, exchangeName |-> NULL, txInfo |-> NoTxInfo,
           mode |-> NULL]
NoAnalysis == Analysis("NONE", 0, 0, UNDEF)
NoResult == FreshWalletResult(FALSE, NULL, <<NULL>>, "none", NULL, NoTxInfo)
NoCall == [exchangeName |-> NULL, mode |-> NULL]

EmptyCache == [w \in {} |-> NoResult]

NoRetry == [pc |-> "idle", owner |-> NULL, maxRetries |-> 0, attempt |-> 0,
            outcomes |-> << >>, waited |-> << >>, value |-> UNDEF]

\* session.filter and the filter argument when it is null
NoFilter == [type |-> NULL]

\* new UserSession(chatId); a timeRange of null is carried as 0, a timeRange
\* of h hours as 1000 * h
NewSession == [state |-> "IDLE", selectedExchanges |-> << >>, scanType |-> NULL,
               filter |-> NoFilter, timeRange |-> 0]

NoExec == [pc |-> "idle", aliased |-> FALSE, exchanges |-> << >>, i |-> 0,
           allResults |-> << >>, cancelRequested |-> FALSE]

NothingShown == [kind |-> "none", results |-> << >>]

\* an executeScan call that has not begun; stats is progressTracker.stats
NoRun == [pc |-> "idle", exchanges |-> << >>, k |-> 0, detector |-> 0,
          pending |-> << >>, results |-> << >>, allResults |-> << >>,
          walked |-> << >>, processed |-> 0,
          stats |-> [walletsScanned |-> 0, freshWalletsFound |-> 0, apiRequests |-> 0],
          issued |-> 0, reported |-> 0, hits |-> {}]

\* the state after new FreshWalletDetector(solanaService, wallets, config)
Constructed(ledgers, configs) ==
  /\ \E l \in ledgers : hist = [w \in Wallets |-> Reverse(l[w])]
  /\ configMaxHops \in configs
  /\ maxHops = constructorMaxHops(configMaxHops)
  /\ processedWalletsCache = EmptyCache
  /\ scanPc = "idle"
  /\ scanCall = NoCall
  /\ allOutgoingTxs = << >>
  /\ walletsToAnalyze = << >>
  /\ analyzed = 0
  /\ skipped = 0
  /\ results = << >>
  /\ returned = << >>
  /\ scans = 0
  /\ walkPc = "none"
  /\ walk = NoWalk
  /\ path = << >>
  /\ currentWallet = NULL
  /\ hops = 0
  /\ analysis = NoAnalysis
  /\ result = NoResult
  /\ verifications = << >>
  /\ analyses = 0
  /\ walked = << >>
  /\ analyzerCalls = 0
  /\ dynamic = [pc |-> "idle", walletAddress |-> NULL, maxTxToTry |-> 0, i |-> 0,
                tried |-> << >>, analysis |-> NoAnalysis, failed |-> FALSE,
                again |-> FALSE]
  /\ transactions = << >>
  /\ direct = [pc |-> "idle", name |-> NULL]
  /\ filterCall = [pc |-> "idle"]
  /\ now = 0
  \* this._queue = Promise.resolve(), this.requestCount = 0
  /\ limiter = [queue |-> << >>, timer |-> 0, passes |-> << >>, requestCount |-> 0]
  /\ network = << >>
  /\ retry = NoRetry
  /\ op = [pc |-> "idle", name |-> NULL]
  /\ session = NewSession
  /\ exec = NoExec
  /\ shown = NothingShown
  /\ scanEntry = [path |-> NULL, wallets |-> << >>, filter |-> NoFilter,
                  rejected |-> FALSE]
  /\ runs = [r \in 1..MaxRuns |-> NoRun]
  /\ caches = << >>

\* config.maxHops: absent, or any budget from 0
Init == Constructed(Ledgers, {<< >>} \cup {<<n>> : n \in 0..MaxHopsCfg})

\* detectionConfig.maxHops of the scanning detectors: absent, or a budget of 1
InitScan == Constructed(ScanLedgers, {<< >>, <<1>>})

\* ------------------------------------------------------------------------
\* Environment of one analyzer call
\* ------------------------------------------------------------------------

SignaturesOf(w) == IF w \in DOMAIN hist THEN hist[w] ELSE << >>

SigNames(w) == {SignaturesOf(w)[i].signature : i \in 1..Len(SignaturesOf(w))}

\* what one verifyFinalWallet(w) call can yield: the count request fails or
\* not, detail fetches fail or not, and the signature listing made for a
\* count of 1 can throw
VerifyOutcomes(w) ==
  {[threw |-> FALSE, countFailed |-> cf,
    verification |-> verifyFinalWallet(w, SignaturesOf(w), cf, dropped)] :
      cf \in BOOLEAN, dropped \in SUBSET SigNames(w)}
  \cup {[threw |-> TRUE, countFailed |-> cf,
          verification |-> Verification(FALSE, "threw", 0)] :
          cf \in {c \in BOOLEAN : getTotalTransactionCount(SignaturesOf(w), c) = 1}}

\* what one analyzeWithDynamicLimit(w, maxTxToTry) call can return
AnalysisOutcomes(w, maxTxToTry) ==
  {analyzeWithDynamicLimit(w, SignaturesOf(w), maxTxToTry, dropped) :
     dropped \in SUBSET SigNames(w)}

\* ------------------------------------------------------------------------
\* scanExchangeWallets
\* ------------------------------------------------------------------------

\* the frame of a detectFreshWallet call that is over
ResetWalk(pc) ==
  /\ walkPc' = pc
  /\ walk' = NoWalk
  /\ path' = << >>
  /\ currentWallet' = NULL
  /\ hops' = 0
  /\ analysis' = NoAnalysis
  /\ result' = NoResult
  /\ verifications' = << >>
  /\ analyses' = 0

\* the locals of a scanExchangeWallets call that is over
ResetScan ==
  /\ scanCall' = NoCall
  /\ allOutgoingTxs' = << >>
  /\ walletsToAnalyze' = << >>
  /\ analyzed' = 0
  /\ skipped' = 0
  /\ results' = << >>
  /\ walked' = << >>
  /\ analyzerCalls' = 0

\* cacheHas that never finds an entry
cacheHasNever(cache, w) == FALSE

\* this.processedWalletsCache.has(w)
cacheHas(cache, w) == w \in DOMAIN cache

\* lines 229-293: the first pass over every exchange wallet and the
\* de-duplication; window is the content of the time window
ScanStart ==
  /\ scanPc \in {"idle", "returned", "thrown"}
  /\ scans < MaxScans
  /\ \E exchangeName \in {"Binance", "OKX"}, filter \in Filters, mode \in Modes,
        window \in SUBSET AllSignatures :
       /\ scanCall' = [exchangeName |-> exchangeName, mode |-> mode]
       /\ allOutgoingTxs' = collectAll(ExchangeWalletsList, window, filter, exchangeName)
       /\ walletsToAnalyze' = uniqueWallets(allOutgoingTxs', {})
  /\ scans' = scans + 1
  /\ scanPc' = "analyze"
  /\ analyzed' = 0
  /\ skipped' = 0
  /\ results' = << >>
  /\ walked' = << >>
  /\ analyzerCalls' = 0
  /\ returned' = << >>
  /\ ResetWalk("none")
  /\ UNCHANGED <<hist, otherVars, detectorVars>>

\* getOutgoingSOLTransactions throws during the first pass
ScanCollectThrows ==
  /\ scanPc \in {"idle", "returned", "thrown"}
  /\ scans < MaxScans
  /\ scans' = scans + 1
  /\ scanPc' = "thrown"
  /\ ResetScan
  /\ returned' = << >>
  /\ ResetWalk("none")
  /\ UNCHANGED <<hist, otherVars, detectorVars>>

NextTx == walletsToAnalyze[analyzed + 1]

\* lines 295-322: the destination is in the cache
ScanCacheHit ==
  /\ scanPc = "analyze"
  /\ analyzed < Len(walletsToAnalyze)
  /\ cacheHas(processedWalletsCache, NextTx.to)
  /\ analyzed' = analyzed + 1
  /\ skipped' = skipped + 1
  /\ results' = IF processedWalletsCache[NextTx.to].isFresh
                THEN Append(results, processedWalletsCache[NextTx.to])
                ELSE results
  /\ UNCHANGED <<hist, otherVars, detectorVars, scanPc, scanCall, allOutgoingTxs,
                 walletsToAnalyze, returned, scans, walked, walkVars, analyzerCalls>>

\* lines 295-345 and 29-32: the destination is not cached, the walk starts
ScanWalkStart ==
  /\ scanPc = "analyze"
  /\ analyzed < Len(walletsToAnalyze)
  /\ ~cacheHas(processedWalletsCache, NextTx.to)
  /\ analyzed' = analyzed + 1
  /\ scanPc' = "walking"
  /\ walked' = Append(walked, NextTx.to)
  /\ walk' = [initialWallet |-> NextTx.to, exchangeName |-> scanCall.exchangeName,
              txInfo |-> txInfoOf(NextTx), mode |-> scanCall.mode]
  /\ path' = <<NextTx.to>>
  /\ currentWallet' = NextTx.to
  /\ hops' = 0
  /\ walkPc' = IF scanCall.mode = "simple" THEN "simple" ELSE "loop"
  /\ analysis' = NoAnalysis
  /\ result' = NoResult
  /\ verifications' = << >>
  /\ analyses' = 0
  /\ UNCHANGED <<hist, otherVars, detectorVars, scanCall, allOutgoingTxs, walletsToAnalyze,
                 skipped, results, returned, scans, analyzerCalls>>

\* lines 347-359: the walk returned
ScanWalkDone ==
  /\ scanPc = "walking"
  /\ walkPc = "done"
  /\ processedWalletsCache' =
       [x \in DOMAIN processedWalletsCache \cup {walk.initialWallet} |->
          IF x = walk.initialWallet THEN result ELSE processedWalletsCache[x]]
  /\ results' = IF result.isFresh THEN Append(results, result) ELSE results
  /\ scanPc' = "analyze"
  /\ ResetWalk("none")
  /\ UNCHANGED <<hist, otherVars, configMaxHops, maxHops, scanCall, allOutgoingTxs,
                 walletsToAnalyze, analyzed, skipped, returned, scans, walked,
                 analyzerCalls>>

\* line 335: the awaited walk rejects, nothing catches it in the scan
ScanWalkThrew ==
  /\ scanPc = "walking"
  /\ walkPc = "thrown"
  /\ scanPc' = "thrown"
  /\ ResetWalk("rejected")
  /\ ResetScan
  /\ UNCHANGED <<hist, otherVars, detectorVars, returned, scans>>

\* lines 362-369
ScanReturn ==
  /\ scanPc = "analyze"
  /\ analyzed = Len(walletsToAnalyze)
  /\ returned' = results
  /\ scanPc' = "returned"
  /\ ResetScan
  /\ UNCHANGED <<hist, otherVars, detectorVars, scans, walkVars>>


\* ------------------------------------------------------------------------
\* detectFreshWallet
\* ------------------------------------------------------------------------

Truthy(w) == w # NULL /\ w # UNDEF /\ w # ""

\* return new FreshWalletResult({...})
Return(isFresh, finalWallet, reason) ==
  /\ result' = FreshWalletResult(isFresh, finalWallet, path, reason,
                                 walk.exchangeName, walk.txInfo)
  /\ walkPc' = "done"

\* an awaited ledger request rejected: the walk rejects
Throw ==
  /\ walkPc' = "thrown"
  /\ result' = result

\* the steps of a walk that end it after one verifyFinalWallet call
VerifyAndReturn(freshReason, notFreshReason) ==
  \E o \in VerifyOutcomes(currentWallet) :
    /\ verifications' = Append(verifications,
                              [wallet |-> currentWallet, threw |-> o.threw,
                               countFailed |-> o.countFailed,
                               isFinal |-> o.verification.isFinal])
    /\ analyzerCalls' = analyzerCalls + 1
    /\ IF o.threw THEN Throw
       ELSE IF o.verification.isFinal
         THEN Return(TRUE, currentWallet, <<freshReason, o.verification.reason>>)
         ELSE Return(FALSE, NULL, <<notFreshReason, o.verification.reason>>)

\* lines 34-70: simple mode
WalkSimple ==
  /\ walkPc = "simple"
  /\ VerifyAndReturn("fresh_simple", "not_fresh_simple")
  /\ UNCHANGED <<hist, otherVars, detectorVars, scanVars, walk, path, currentWallet, hops,
                 analysis, analyses>>

\* lines 73-82: one more iteration of the loop, the pattern analysis
WalkAnalyze ==
  /\ walkPc = "loop"
  /\ hops < maxHops
  /\ analyses' = analyses + 1
  /\ analyzerCalls' = analyzerCalls + 1
  /\ \/ /\ analysis' \in AnalysisOutcomes(currentWallet, MaxTxToTry)
        /\ walkPc' = "analyzed"
     \/ /\ analysis' = analysis
        /\ walkPc' = "thrown"
  /\ UNCHANGED <<hist, otherVars, detectorVars, scanVars, walk, path, currentWallet, hops,
                 result, verifications>>

\* lines 84-97: case 1
WalkVirgin ==
  /\ walkPc = "analyzed"
  /\ analysis.pattern = "VIRGIN"
  /\ Return(TRUE, currentWallet, <<"fresh_virgin", "virgin">>)
  /\ UNCHANGED <<hist, otherVars, detectorVars, scanVars, walk, path, currentWallet, hops,
                 analysis, verifications, analyses, analyzerCalls>>

\* lines 99-132: case 2
WalkOnlyReceiving ==
  /\ walkPc = "analyzed"
  /\ analysis.pattern = "ONLY_RECEIVING"
  /\ VerifyAndReturn("fresh_after_hops", "not_fresh")
  /\ UNCHANGED <<hist, otherVars, detectorVars, scanVars, walk, path, currentWallet, hops,
                 analysis, analyses>>

\* case 3 with the hop counter left alone
WalkHopUncounted ==
  /\ walkPc = "analyzed"
  /\ analysis.pattern = "HOP" /\ Truthy(analysis.nextWallet)
  /\ IF isExchangeWallet(Sources, analysis.nextWallet)
     THEN /\ Return(FALSE, NULL, <<"back_to_exchange", "hop">>)
          /\ UNCHANGED <<path, currentWallet, hops>>
     ELSE IF pathIncludes(path, analysis.nextWallet)
     THEN /\ Return(FALSE, NULL, <<"circular", "hop">>)
          /\ UNCHANGED <<path, currentWallet, hops>>
     ELSE /\ currentWallet' = analysis.nextWallet
          /\ path' = Append(path, analysis.nextWallet)
          /\ hops' = hops
          /\ walkPc' = "loop"
          /\ result' = result
  /\ UNCHANGED <<hist, otherVars, detectorVars, scanVars, walk, analysis, verifications,
                 analyses, analyzerCalls>>

\* lines 134-172: case 3
WalkHop ==
  /\ walkPc = "analyzed"
  /\ analysis.pattern = "HOP" /\ Truthy(analysis.nextWallet)
  /\ IF isExchangeWallet(Sources, analysis.nextWallet)
     THEN /\ Return(FALSE, NULL, <<"back_to_exchange", "hop">>)
          /\ UNCHANGED <<path, currentWallet, hops>>
     ELSE IF pathIncludes(path, analysis.nextWallet)
     THEN /\ Return(FALSE, NULL, <<"circular", "hop">>)
          /\ UNCHANGED <<path, currentWallet, hops>>
     ELSE /\ currentWallet' = analysis.nextWallet
          /\ path' = Append(path, analysis.nextWallet)
          /\ hops' = hops + 1
          /\ walkPc' = "loop"
          /\ result' = result
  /\ UNCHANGED <<hist, otherVars, detectorVars, scanVars, walk, analysis, verifications,
                 analyses, analyzerCalls>>

\* lines 174-185: case 4
WalkOther ==
  /\ walkPc = "analyzed"
  /\ analysis.pattern \notin {"VIRGIN", "ONLY_RECEIVING"}
  /\ ~(analysis.pattern = "HOP" /\ Truthy(analysis.nextWallet))
  /\ Return(FALSE, NULL, <<"other", analysis.pattern>>)
  /\ UNCHANGED <<hist, otherVars, detectorVars, scanVars, walk, path, currentWallet, hops,
                 analysis, verifications, analyses, analyzerCalls>>

\* the exit on the hop budget without the last verification
WalkMaxHopsUnverified ==
  /\ walkPc = "loop"
  /\ ~(hops < maxHops)
  /\ Return(FALSE, NULL, <<"max_hops_invalid", "unverified">>)
  /\ UNCHANGED <<hist, otherVars, detectorVars, scanVars, walk, path, currentWallet, hops,
                 analysis, verifications, analyses, analyzerCalls>>

\* lines 188-217: the loop ended on the hop budget
WalkMaxHops ==
  /\ walkPc = "loop"
  /\ ~(hops < maxHops)
  /\ VerifyAndReturn("fresh_max_hops", "max_hops_invalid")
  /\ UNCHANGED <<hist, otherVars, detectorVars, scanVars, walk, path, currentWallet, hops,
                 analysis, analyses>>

\* ------------------------------------------------------------------------
\* Specification
\* ------------------------------------------------------------------------

\* a caller invokes detectFreshWallet(initialWallet, exchangeName, txInfo, 10, mode)
DetectCall ==
  /\ scanPc = "idle"
  /\ walkPc \in {"none", "done", "thrown"}
  /\ \E initialWallet \in Wallets, mode \in Modes :
       /\ walk' = [initialWallet |-> initialWallet, exchangeName |-> "Binance",
                   txInfo |-> txInfoOf(OutgoingOf("S1")[1]), mode |-> mode]
       /\ path' = <<initialWallet>>
       /\ currentWallet' = initialWallet
       /\ walkPc' = IF mode = "simple" THEN "simple" ELSE "loop"
  /\ hops' = 0
  /\ analysis' = NoAnalysis
  /\ result' = NoResult
  /\ verifications' = << >>
  /\ analyses' = 0
  /\ analyzerCalls' = 0
  /\ UNCHANGED <<hist, otherVars, detectorVars, scanVars>>

WalkStep ==
  \/ WalkSimple
  \/ WalkAnalyze
  \/ WalkVirgin
  \/ WalkOnlyReceiving
  \/ WalkHop
  \/ WalkOther
  \/ WalkMaxHops

\* detectFreshWallet called directly, on every ledger
Next ==
  \/ DetectCall
  \/ WalkStep

Spec == Init /\ [][Next]_vars

\* the ledgers whose relay graph holds cycles and chains: A and B forward
\* what they received to another wallet, C forwards too or has no
\* transaction
RelayLedgers ==
  LET Forwards(l, a) == Len(l[a]) = 2 /\ l[a][2].accountKeys[2] \in Wallets
                          /\ l[a][2].postBalances[2] = 19000
  IN  {l \in Ledgers : /\ Forwards(l, "A") /\ Forwards(l, "B")
                       /\ Forwards(l, "C") \/ l["C"] = << >>}

InitRelays == Constructed(RelayLedgers, {<< >>} \cup {<<n>> : n \in 1..MaxHopsCfg})

\* walks over these ledgers when every await of detectFreshWallet settles:
\* a step of the walk that can be taken is taken
SpecWalkSettles == InitRelays /\ [][Next]_vars /\ WF_vars(WalkStep)

\* scanExchangeWallets called repeatedly on one detector
NextScan ==
  \/ ScanStart
  \/ ScanCollectThrows
  \/ ScanCacheHit
  \/ ScanWalkStart
  \/ ScanWalkDone
  \/ ScanWalkThrew
  \/ ScanReturn
  \/ WalkStep

SpecScan == InitScan /\ [][NextScan]_vars


\* ------------------------------------------------------------------------
\* TransactionAnalyzer called directly, window by window
\* ------------------------------------------------------------------------

\* the transaction a history holds at position t, by kind: a credit, a
\* relayed debit, a dust credit, a credit the RPC lists without blockTime, a
\* debit of exactly 80 percent of one credit (fee included) and a debit one
\* lamport short of it
TxOfKind(kind, a, t) ==
  LET sig == <<"t", t>>
  IN  IF kind = "R" THEN Xfer(sig, t, "S1", a, 20000)
      ELSE IF kind = "N" THEN Xfer(sig, 0, "S1", a, 20000)
      ELSE IF kind = "W" THEN Xfer(sig, t, a, "B", 19000)
      ELSE IF kind = "V" THEN Xfer(sig, 0, a, "B", 19000)
      ELSE IF kind = "D" THEN Xfer(sig, t, "S1", a, 500)
      ELSE IF kind = "E" THEN Xfer(sig, t, a, "B", 15995)
      ELSE Xfer(sig, t, a, "B", 15994)

\* the ledgers of the analyzer calls: the analyzed account is A, its
\* histories are oldest first
InitAnalyzer ==
  LET KindSeqs == (UNION {[1..k -> {"R", "W", "D"}] : k \in 0..MaxHistory})
                    \cup {<<"R", "E">>, <<"R", "L">>, <<"R", "R", "E">>}
      Histories == {[t \in 1..Len(ks) |-> TxOfKind(ks[t], "A", t)] : ks \in KindSeqs}
  IN  Constructed({[w \in Wallets |-> IF w = "A" THEN h ELSE << >>] : h \in Histories},
                  {<< >>})

\* the detail fetches that can fail within one getFirstTransactions call
Droppable(w) == {d \in SUBSET SigNames(w) : Cardinality(d) <= MaxDropped}

\* a call that goes on from the ladder position the call before it reached
DynamicCallResumes ==
  /\ dynamic.pc \in {"idle", "returned", "thrown"}
  /\ \E maxTxToTry \in {3, 10} :
       dynamic' = [pc |-> "loop", walletAddress |-> "A", maxTxToTry |-> maxTxToTry,
                   i |-> IF dynamic.pc = "returned" /\ dynamic.i > 1
                         THEN dynamic.i - 1 ELSE 1,
                   tried |-> << >>, analysis |-> NoAnalysis, failed |-> FALSE,
                   again |-> dynamic.again \/ dynamic.pc = "returned"]
  /\ transactions' = << >>
  /\ UNCHANGED exceptAnalyzer

\* a caller invokes analyzeWithDynamicLimit(walletAddress, maxTxToTry); again
\* tells that a call made before it has returned, failed that a detail fetch
\* of this call failed
DynamicCall ==
  /\ dynamic.pc \in {"idle", "returned", "thrown"}
  /\ \E maxTxToTry \in {3, 10} :
       dynamic' = [pc |-> "loop", walletAddress |-> "A", maxTxToTry |-> maxTxToTry,
                   i |-> 1, tried |-> << >>, analysis |-> NoAnalysis,
                   failed |-> FALSE,
                   again |-> dynamic.again \/ dynamic.pc = "returned"]
  /\ transactions' = << >>
  /\ UNCHANGED exceptAnalyzer

Tried(limit, a) == [limit |-> limit, pattern |-> a.pattern, receives |-> a.receives]

\* lines 295-328: one iteration of the loop over limitsToTry
DynamicTry ==
  /\ dynamic.pc = "loop"
  /\ LET limit == limitsToTry(dynamic.maxTxToTry)[dynamic.i]
         last  == dynamic.i = Len(limitsToTry(dynamic.maxTxToTry))
     IN  \/ \E dropped \in Droppable(dynamic.walletAddress) :
              LET a == analyzeFirstTransactions(dynamic.walletAddress,
                         SignaturesOf(dynamic.walletAddress), limit, dropped)
                  returns == \/ a.pattern = "ONLY_RECEIVING" /\ a.receives = 1
                             \/ a.pattern = "HOP"
                             \/ a.pattern = "VIRGIN"
              IN  /\ transactions' = getFirstTransactions(
                                       SignaturesOf(dynamic.walletAddress), limit, dropped)
                  /\ dynamic' = [dynamic EXCEPT
                       !.pc = IF returns THEN "returned"
                              ELSE IF last THEN "final" ELSE "loop",
                       !.i = IF returns THEN @ ELSE @ + 1,
                       !.tried = Append(@, Tried(limit, a)),
                       !.analysis = a,
                       !.failed = @ \/ transactions' # getFirstTransactions(
                                     SignaturesOf(dynamic.walletAddress), limit, {})]
         \/ /\ dynamic' = [dynamic EXCEPT !.pc = "thrown"]
            /\ transactions' = transactions
  /\ UNCHANGED exceptAnalyzer

\* lines 330-333: the analysis made after the loop
DynamicFinal ==
  /\ dynamic.pc = "final"
  /\ \/ \E dropped \in Droppable(dynamic.walletAddress) :
          LET a == analyzeFirstTransactions(dynamic.walletAddress,
                     SignaturesOf(dynamic.walletAddress), dynamic.maxTxToTry, dropped)
          IN  /\ transactions' = getFirstTransactions(
                                   SignaturesOf(dynamic.walletAddress),
                                   dynamic.maxTxToTry, dropped)
              /\ dynamic' = [dynamic EXCEPT
                   !.pc = "returned",
                   !.tried = Append(@, Tried(dynamic.maxTxToTry, a)),
                   !.analysis = a,
                   !.failed = @ \/ transactions' # getFirstTransactions(
                                 SignaturesOf(dynamic.walletAddress),
                                 dynamic.maxTxToTry, {})]
     \/ /\ dynamic' = [dynamic EXCEPT !.pc = "thrown"]
        /\ transactions' = transactions
  /\ UNCHANGED exceptAnalyzer

NextAnalyzer ==
  \/ DynamicCall
  \/ DynamicTry
  \/ DynamicFinal

SpecAnalyzer == InitAnalyzer /\ [][NextAnalyzer]_vars

\* ------------------------------------------------------------------------
\* getTransactionType and getWithdrawDestination called directly
\* ------------------------------------------------------------------------

\* the transactions handed to the classifiers: three accounts whose balances
\* move by amounts around the threshold, a parsed transaction that is null,
\* one without meta, and one whose balance arrays are shorter than its keys
DirectTransactions ==
  LET KeyLists == {<<"S1", "A", SYS>>, <<"S1", SYS, "A">>, <<"A", "B", "S1">>}
      Deltas == [1..3 -> {-Threshold - 1, -Threshold, Threshold, Threshold + 1}]
      pre == <<100000, 100000, 100000>>
  IN  {[signature |-> "t1", blockTime |-> 1, accountKeys |-> keys, preBalances |-> pre,
        postBalances |-> [i \in 1..3 |-> pre[i] + d[i]]] : keys \in KeyLists, d \in Deltas}
      \cup {[transaction |-> NULL]}
      \cup {[signature |-> "t1", blockTime |-> 1, accountKeys |-> keys] : keys \in KeyLists}
      \cup {[signature |-> "t1", blockTime |-> 1, accountKeys |-> keys,
              preBalances |-> <<100000>>, postBalances |-> <<100000 + d>>] :
              keys \in KeyLists, d \in {-Threshold - 1, Threshold + 1}}

InitDirect ==
  Constructed({[w \in Wallets |-> << >>]}, {<< >>})

\* a caller invokes getTransactionType(walletAddress, transaction)
TypeCall ==
  /\ \E walletAddress \in {"A", "B", "S1"}, transaction \in DirectTransactions :
       LET type == getTransactionType(walletAddress, transaction)
       IN  direct' = [pc |-> IF type = THROWN THEN "thrown" ELSE "returned",
                      name |-> "getTransactionType", wallet |-> walletAddress,
                      transaction |-> transaction, result |-> type]
  /\ UNCHANGED <<hist, engineVars, dynamic, transactions, filterVars, clientVars, botVars,
                 runVars>>

\* a caller invokes getWithdrawDestination(sourceWallet, transaction)
DestinationCall ==
  /\ \E sourceWallet \in {"A", "B", "S1"}, transaction \in DirectTransactions :
       LET destination == getWithdrawDestination(sourceWallet, transaction)
       IN  direct' = [pc |-> IF destination = THROWN THEN "thrown" ELSE "returned",
                      name |-> "getWithdrawDestination", wallet |-> sourceWallet,
                      transaction |-> transaction, result |-> destination]
  /\ UNCHANGED <<hist, engineVars, dynamic, transactions, filterVars, clientVars, botVars,
                 runVars>>

NextDirect ==
  \/ TypeCall
  \/ DestinationCall

SpecDirect == InitDirect /\ [][NextDirect]_vars


\* ------------------------------------------------------------------------
\* matchesFilter called directly, and the retention of lines 267-271
\* ------------------------------------------------------------------------

Amounts == 0..MaxAmount

\* the filters a caller can pass: ranges (well formed or not), targets with
\* a tolerance of 10 or 50 percent, and a filter of another type
FilterArgs ==
  {[type |-> "range", min |-> lo, max |-> hi, value |-> 0, tolerance |-> 0] :
     lo \in {0, 3, 6, MaxAmount}, hi \in {0, 3, 6, MaxAmount}}
  \cup {[type |-> "target", min |-> 0, max |-> 0, value |-> v, tolerance |-> t] :
          v \in {2, 10}, t \in {10, 50}}
  \cup {[type |-> "percent", min |-> 0, max |-> MaxAmount, value |-> 2, tolerance |-> 50]}

\* the outgoing transfers of one exchange wallet with these two amounts
OutgoingWith(amount, other) ==
  <<Transfer("x1", 5, "S1", "A", amount), Transfer("x2", 3, "S1", "B", other),
    Transfer("x3", 2, "S1", "A", other)>>

\* matchesFilter(amount, filter), then lines 267-280 on the transfers
FilterCall ==
  /\ filterCall.pc = "idle"
  /\ \E amount \in Amounts, other \in Amounts, filter \in FilterArgs :
       LET filtered == retainMatching(OutgoingWith(amount, other), filter, "Binance")
       IN  filterCall' = [pc |-> "returned", amount |-> amount, other |-> other,
                          filter |-> filter,
                          matched |-> matchesFilter(amount, filter),
                          filtered |-> filtered,
                          unique |-> uniqueWallets(filtered, {})]
  /\ UNCHANGED exceptFilter

NextFilter == FilterCall

InitFilter == Constructed({[w \in Wallets |-> << >>]}, {<< >>})

SpecFilter == InitFilter /\ [][NextFilter]_vars

\* ------------------------------------------------------------------------
\* SolanaService.retryWithBackoff
\* ------------------------------------------------------------------------

\* Math.min(1000 * Math.pow(2, attempt), 8000) without the ceiling
backoffTimeUncapped(attempt) == BackoffBase * 2^attempt

\* Math.min(1000 * Math.pow(2, attempt), 8000)
backoffTime(attempt) == Min(BackoffBase * 2^attempt, BackoffCap)

\* what fn resolves to when retryWithBackoff is called directly
FnValues == {"a", "b"}

\* entry of retryWithBackoff(fn, maxRetries): a loop that runs no iteration
\* returns undefined
RetryEntered(owner, args) ==
  LET maxRetries == IF args = << >> THEN DefaultMaxRetries ELSE args[1]
  IN  [pc |-> IF 0 < maxRetries THEN "attempt" ELSE "returned",
       owner |-> owner, maxRetries |-> maxRetries, attempt |-> 0,
       outcomes |-> << >>, waited |-> << >>, value |-> UNDEF]

\* lines 35-50: the frame after fn settled with outcome, value being what it
\* resolved to
RetrySettled(r, outcome, value) ==
  LET is429 == outcome = "429"
      isLastAttempt == r.attempt = r.maxRetries - 1
      seen == Append(r.outcomes, outcome)
  IN  IF outcome = "ok"
      THEN [r EXCEPT !.pc = "returned", !.outcomes = seen, !.value = value]
      ELSE IF is429 /\ ~isLastAttempt
      THEN [r EXCEPT !.pc = "backoff", !.outcomes = seen]
      ELSE [r EXCEPT !.pc = "thrown", !.outcomes = seen, !.value = outcome]

\* a caller invokes retryWithBackoff(fn, maxRetries) with an fn of its own
RetryCall ==
  /\ retry.pc = "idle"
  /\ op.pc = "idle"
  /\ \E args \in {<< >>} \cup {<<n>> : n \in 0..MaxRetriesArg} : retry' = RetryEntered("caller", args)
  /\ UNCHANGED <<now, limiter, network, op>>
  /\ UNCHANGED exceptClient

\* line 36 for that caller: fn is called and settles
RetryAttempt ==
  /\ retry.pc = "attempt"
  /\ retry.owner = "caller"
  /\ \E outcome \in {"ok", "429", "other"}, value \in FnValues :
       retry' = RetrySettled(retry, outcome, value)
  /\ UNCHANGED <<now, limiter, network, op>>
  /\ UNCHANGED exceptClient

\* lines 42-45: await this.delay(backoffTime); continue
RetryBackoff ==
  /\ retry.pc = "backoff"
  /\ now' = now + backoffTime(retry.attempt)
  /\ retry' = [retry EXCEPT !.pc = "attempt",
                            !.attempt = @ + 1,
                            !.waited = Append(@, backoffTime(retry.attempt))]
  /\ UNCHANGED <<limiter, network, op>>
  /\ UNCHANGED exceptClient

NextRetry ==
  \/ RetryCall
  \/ RetryAttempt
  \/ RetryBackoff

InitRetry == Constructed({[w \in Wallets |-> << >>]}, {<< >>})

SpecRetry == InitRetry /\ [][NextRetry]_vars

\* ------------------------------------------------------------------------
\* SolanaService: the rate limiter and the operations, await by await
\* ------------------------------------------------------------------------


\* rateLimitedDelay, line 25, for callers that call it in this order at time
\* t: each delay is chained behind the previous one; the delay of the first
\* starts at once when the chain had resolved
Enqueued(l, callers, t) ==
  [l EXCEPT !.queue = @ \o callers,
            !.timer = IF l.queue = << >> THEN t ELSE @]

\* the time at which the delay at the head of the chain is over
PassTime ==
  LET due == limiter.timer + MIN_REQUEST_INTERVAL
  IN  IF now > due THEN now ELSE due

\* rateLimitedDelay, lines 26-27, for the caller at the head of the chain
Passed(l, t) ==
  [l EXCEPT !.queue = Tail(@), !.timer = t, !.passes = Append(@, t),
            !.requestCount = @ + 1]

\* a request sent to the ledger at time t: arg is the cursor (before) of a
\* signature request, the signature of a detail request; time passes in the
\* delays of the limiter and of the backoff, a request is answered at once
Request(kind, arg, t) == [kind |-> kind, arg |-> arg, at |-> t]

\* connection.getSignaturesForAddress(publicKey, {limit: 100, before})
PageAfter(signatures, before) ==
  LET from == IF before = UNDEF THEN 1
              ELSE (CHOOSE i \in 1..Len(signatures) :
                      signatures[i].signature = before) + 1
  IN  SubSeq(signatures, from, Min(from + batchSize - 1, Len(signatures)))

OpFrame(name, inner, walletAddress, limit, maxAgeHours, cutoffTime) ==
  [pc |-> "limiter", name |-> name, inner |-> inner,
   walletAddress |-> walletAddress, limit |-> limit,
   maxAgeHours |-> maxAgeHours, cutoffTime |-> cutoffTime,
   allSignatures |-> << >>, before |-> UNDEF, reachedTimeLimit |-> FALSE,
   pages |-> << >>, toFetch |-> << >>, i |-> 0, slots |-> << >>,
   failed |-> {}, transactions |-> << >>, outgoingTxs |-> << >>,
   result |-> UNDEF]

\* the callers of rateLimitedDelay: the page loop of an operation,
\* getTotalTransactionCount, and the k-th detail fetch of a batch
PageCaller == <<"page", 0>>

CountCaller == <<"count", 0>>

\* lines 145-151 and 259-267: the next batch of detail fetches is mapped,
\* every one of them calls rateLimitedDelay first
\* a batch that takes every entry that is left
BatchOfRest(toFetch, i) == SubSeq(toFetch, i + 1, Len(toFetch))

BatchOf(toFetch, i) == SubSeq(toFetch, i + 1, Min(i + parallelBatchSize, Len(toFetch)))

DetailCallers(toFetch, i) ==
  [k \in 1..Len(BatchOf(toFetch, i)) |-> <<"detail", k>>]

\* getTotalTransactionCount(walletAddress), up to its rateLimitedDelay
CountCall ==
  /\ op.pc = "idle" /\ retry.pc = "idle"
  /\ \E w \in DOMAIN hist :
       op' = OpFrame("getTotalTransactionCount", NULL, w, 0, 0, 0)
  /\ limiter' = Enqueued(limiter, <<CountCaller>>, now)
  /\ UNCHANGED <<now, network, retry>>
  /\ UNCHANGED exceptClient

\* lines 80-98: the request is sent without retry; a failure yields 0
CountPass ==
  /\ limiter.queue # << >> /\ Head(limiter.queue) = CountCaller
  /\ now' = PassTime
  /\ limiter' = Passed(limiter, PassTime)
  /\ network' = Append(network, Request("count", UNDEF, PassTime))
  /\ \E failed \in BOOLEAN :
       op' = [op EXCEPT !.pc = "returned",
                        !.result = getTotalTransactionCount(
                                     SignaturesOf(op.walletAddress), failed)]
  /\ UNCHANGED retry
  /\ UNCHANGED exceptClient

\* getFirstTransactions(walletAddress, limit), up to its first rateLimitedDelay
FirstCall ==
  /\ op.pc = "idle" /\ retry.pc = "idle"
  /\ \E w \in DOMAIN hist, limit \in {1, 2, 5} :
       op' = OpFrame("getFirstTransactions", NULL, w, limit, 0, 0)
  /\ limiter' = Enqueued(limiter, <<PageCaller>>, now)
  /\ UNCHANGED <<now, network, retry>>
  /\ UNCHANGED exceptClient

\* lines 115-118 and 183-186: the delay of a page is over, retryWithBackoff
\* is entered
PagePass ==
  /\ limiter.queue # << >> /\ Head(limiter.queue) = PageCaller
  /\ now' = PassTime
  /\ limiter' = Passed(limiter, PassTime)
  /\ retry' = RetryEntered("page", << >>)
  /\ op' = [op EXCEPT !.pc = "fetching"]
  /\ UNCHANGED network
  /\ UNCHANGED exceptClient

\* lines 36 and 119-122: one attempt of the signature request
PageAttempt ==
  /\ retry.pc = "attempt"
  /\ retry.owner = "page"
  /\ network' = Append(network, Request("signatures", op.before, now))
  /\ \E outcome \in {"ok", "429", "other"} :
       retry' = RetrySettled(retry, outcome,
                             PageAfter(SignaturesOf(op.walletAddress), op.before))
  /\ UNCHANGED <<now, limiter, op>>
  /\ UNCHANGED exceptClient

\* lines 158-160, 221-223 and 351-353: the signature request failed for good
PageFailed ==
  /\ retry.pc = "thrown"
  /\ retry.owner = "page"
  /\ op' = [op EXCEPT !.pc = "thrown"]
  /\ retry' = NoRetry
  /\ UNCHANGED <<now, limiter, network>>
  /\ UNCHANGED exceptClient

\* the frame and the limiter when the detail fetches of toFetch begin
DetailsBegun(frame, toFetch) ==
  [frame EXCEPT !.pc = "details", !.toFetch = toFetch, !.i = 0,
                !.slots = [k \in 1..Len(BatchOf(toFetch, 0)) |-> "pending"]]

\* lines 125-155: a page of getFirstTransactions arrived
FirstPageFetched ==
  /\ retry.pc = "returned"
  /\ retry.owner = "page"
  /\ op.name = "getFirstTransactions"
  /\ LET batch == retry.value
         all   == op.allSignatures \o batch
         more  == /\ batch # << >>
                  /\ ~(Len(batch) < batchSize)
                  /\ Len(all) < SafetyLimit
         paged == [op EXCEPT !.allSignatures = all,
                             !.pages = Append(@, Len(batch)),
                             !.before = IF batch = << >> THEN @
                                        ELSE batch[Len(batch)].signature]
     IN  IF more
         THEN /\ op' = [paged EXCEPT !.pc = "limiter"]
              /\ limiter' = Enqueued(limiter, <<PageCaller>>, now)
         ELSE \E sorted \in Sorts(all) :
                LET firstN == Slice(sorted, op.limit)
                IN  IF firstN = << >>
                    THEN /\ op' = [paged EXCEPT !.pc = "returned", !.result = << >>]
                         /\ limiter' = limiter
                    ELSE /\ op' = DetailsBegun(paged, firstN)
                         /\ limiter' = Enqueued(limiter, DetailCallers(firstN, 0), now)
  /\ retry' = NoRetry
  /\ UNCHANGED <<now, network>>
  /\ UNCHANGED exceptClient

\* lines 149-150 and 264-266: the delay of one detail fetch is over, the
\* request is sent; getTransactionDetails yields the transaction or null
DetailPass ==
  /\ limiter.queue # << >> /\ Head(limiter.queue)[1] = "detail"
  /\ now' = PassTime
  /\ limiter' = Passed(limiter, PassTime)
  /\ LET k == Head(limiter.queue)[2]
     IN  /\ network' = Append(network, Request("details",
                                               op.toFetch[op.i + k].signature,
                                               PassTime))
         /\ \E fetched \in BOOLEAN :
              op' = [op EXCEPT
                       !.slots[k] = IF fetched THEN "fetched" ELSE "null",
                       !.failed = IF fetched THEN @
                                  ELSE @ \cup {op.toFetch[op.i + k].signature}]
  /\ UNCHANGED retry
  /\ UNCHANGED exceptClient

\* what getTransactionDetails returns when the request fails (null)
NullTransaction == [transaction |-> NULL]

\* batchResults, with null where getTransactionDetails returned null
BatchResults(frame) ==
  [k \in 1..Len(frame.slots) |->
     IF frame.slots[k] = "fetched" THEN frame.toFetch[frame.i + k]
     ELSE NullTransaction]

\* a batch in which one detail fetch failed aborts the operation
AfterBatchAborting(frame, finished) ==
  IF \E k \in 1..Len(frame.slots) : frame.slots[k] = "null"
  THEN [frame EXCEPT !.pc = "thrown"]
  ELSE IF frame.i + parallelBatchSize < Len(frame.toFetch)
  THEN [frame EXCEPT !.i = @ + parallelBatchSize,
                     !.slots = [k \in 1..Len(BatchOf(frame.toFetch,
                                                     frame.i + parallelBatchSize))
                                  |-> "pending"]]
  ELSE [frame EXCEPT !.pc = "returned", !.result = finished]

\* the frame after a batch: the next batch, or the end
AfterBatch(frame, finished) ==
  IF frame.i + parallelBatchSize < Len(frame.toFetch)
  THEN [frame EXCEPT !.i = @ + parallelBatchSize,
                     !.slots = [k \in 1..Len(BatchOf(frame.toFetch,
                                                     frame.i + parallelBatchSize))
                                  |-> "pending"]]
  ELSE [frame EXCEPT !.pc = "returned", !.result = finished]

\* lines 153-157: Promise.all of a batch resolved
FirstBatchSettled ==
  /\ op.pc = "details"
  /\ op.name = "getFirstTransactions"
  /\ \A k \in 1..Len(op.slots) : op.slots[k] # "pending"
  /\ LET pushed == op.transactions
                   \o SelectSeq(BatchResults(op), LAMBDA tx : tx # NullTransaction)
         frame  == [op EXCEPT !.transactions = pushed]
     IN  /\ op' = AfterBatch(frame, pushed)
         /\ limiter' = IF op'.pc = "details"
                       THEN Enqueued(limiter, DetailCallers(op.toFetch, op'.i), now)
                       ELSE limiter
  /\ UNCHANGED <<now, network, retry>>
  /\ UNCHANGED exceptClient

\* lines 193-204: the entries of a page up to the first one older than the
\* cutoff
Older(frame, sig) ==
  /\ frame.maxAgeHours # 0
  /\ ~Falsy(sig.blockTime)
  /\ sig.blockTime < frame.cutoffTime

\* no entry of a page is taken to be older than the cutoff
FirstOlderNever(frame, batch) == Len(batch) + 1

FirstOlder(frame, batch) ==
  IF \E k \in 1..Len(batch) : Older(frame, batch[k])
  THEN CHOOSE k \in 1..Len(batch) :
         /\ Older(frame, batch[k])
         /\ \A j \in 1..(k - 1) : ~Older(frame, batch[j])
  ELSE Len(batch) + 1

\* the time windows of a call: maxAgeHours 0 is no window; cutoffTime is
\* Math.floor(Date.now() / 1000) - maxAgeHours * 3600 on the clock of the
\* block times, here among the block times of the short listings and around
\* the page boundaries of the long ones
TimeWindows ==
  {[maxAgeHours |-> 0, cutoffTime |-> 0]}
  \cup {[maxAgeHours |-> DefaultMaxAgeHours, cutoffTime |-> c] :
          c \in (1..(MaxSignatures + 1))
                 \cup {p * (batchSize \div 2) + d : p \in 1..MaxPages, d \in {0, 1}}}

\* getRecentTransactions(walletAddress, limit, maxAgeHours), up to its first
\* rateLimitedDelay
RecentCall ==
  /\ op.pc = "idle" /\ retry.pc = "idle"
  /\ \E w \in DOMAIN hist, limit \in {0, DefaultRecentLimit}, window \in TimeWindows :
       op' = OpFrame("getRecentTransactions", "getRecentTransactions", w, limit,
                     window.maxAgeHours, window.cutoffTime)
  /\ limiter' = Enqueued(limiter, <<PageCaller>>, now)
  /\ UNCHANGED <<now, network, retry>>
  /\ UNCHANGED exceptClient

\* getOutgoingSOLTransactions(walletAddress, 0, maxAgeHours), up to the first
\* rateLimitedDelay of its getRecentTransactions
OutgoingCall ==
  /\ op.pc = "idle" /\ retry.pc = "idle"
  /\ \E w \in DOMAIN hist, window \in TimeWindows :
       op' = OpFrame("getOutgoingSOLTransactions", "getRecentTransactions", w, 0,
                     window.maxAgeHours, window.cutoffTime)
  /\ limiter' = Enqueued(limiter, <<PageCaller>>, now)
  /\ UNCHANGED <<now, network, retry>>
  /\ UNCHANGED exceptClient

\* lines 193-220 (and 249-260 when getOutgoingSOLTransactions awaits the
\* listing): a page of getRecentTransactions arrived
RecentPageFetched ==
  /\ retry.pc = "returned"
  /\ retry.owner = "page"
  /\ op.inner = "getRecentTransactions"
  /\ LET batch == retry.value
         firstOlder == FirstOlder(op, batch)
         reachedTimeLimit == firstOlder <= Len(batch)
         all == op.allSignatures \o SubSeq(batch, 1, firstOlder - 1)
         shouldFetchAll == op.limit = 0 \/ op.limit > FetchAllAbove
         enough == ~shouldFetchAll /\ Len(all) >= op.limit
         more == /\ batch # << >>
                 /\ ~enough
                 /\ ~(Len(batch) < batchSize)
                 /\ ~reachedTimeLimit
         signatures == IF batch = << >> THEN op.allSignatures
                       ELSE IF enough THEN Slice(all, op.limit)
                       ELSE all
         paged == [op EXCEPT !.allSignatures = signatures,
                             !.pages = Append(@, Len(batch)),
                             !.reachedTimeLimit = reachedTimeLimit,
                             !.before = IF more THEN batch[Len(batch)].signature
                                        ELSE @]
     IN  IF more
         THEN /\ op' = [paged EXCEPT !.pc = "limiter"]
              /\ limiter' = Enqueued(limiter, <<PageCaller>>, now)
         ELSE IF op.name = "getRecentTransactions"
         THEN /\ op' = [paged EXCEPT !.pc = "returned", !.result = signatures]
              /\ limiter' = limiter
         ELSE IF signatures = << >>
         THEN /\ op' = [paged EXCEPT !.pc = "returned", !.result = << >>]
              /\ limiter' = limiter
         ELSE /\ op' = DetailsBegun([paged EXCEPT !.inner = NULL], signatures)
              /\ limiter' = Enqueued(limiter, DetailCallers(signatures, 0), now)
  /\ retry' = NoRetry
  /\ UNCHANGED <<now, network>>
  /\ UNCHANGED exceptClient

\* lines 285-334 for one result of a batch: the transfers a fetched
\* transaction sends from walletAddress; nothing for a transaction that is
\* null (the ledger of the model holds no failed transaction, meta.err)
OutgoingFrom(walletAddress, tx) ==
  IF tx = NullTransaction THEN << >>
  ELSE
  LET accountKeys == tx.accountKeys
      sourceIndex == indexOf(accountKeys, walletAddress)
      sourceDiff  == tx.preBalances[sourceIndex] - tx.postBalances[sourceIndex]
      recipientGain(i) == tx.postBalances[i] - tx.preBalances[i]
      Receives(i) == /\ i # sourceIndex
                     /\ ~isSystemProgram(accountKeys[i])
                     /\ recipientGain(i) >= MinRecipientGain
      recipients == SelectSeq([i \in 1..Len(accountKeys) |-> i],
                      LAMBDA i : /\ Receives(i)
                                 /\ \A j \in 1..(i - 1) :
                                      ~(Receives(j) /\ accountKeys[j] = accountKeys[i]))
  IN  IF sourceIndex = 0 THEN << >>
      ELSE IF sourceDiff < MinSourceDiff THEN << >>
      ELSE [k \in 1..Len(recipients) |->
              Transfer(tx.signature, tx.blockTime, walletAddress,
                       accountKeys[recipients[k]], recipientGain(recipients[k]))]

RECURSIVE OutgoingOfAll(_, _)
OutgoingOfAll(walletAddress, batchResults) ==
  IF batchResults = << >> THEN << >>
  ELSE OutgoingFrom(walletAddress, Head(batchResults))
       \o OutgoingOfAll(walletAddress, Tail(batchResults))

\* lines 269-350: Promise.all of a batch resolved, its results are processed
OutgoingBatchSettled ==
  /\ op.pc = "details"
  /\ op.name = "getOutgoingSOLTransactions"
  /\ \A k \in 1..Len(op.slots) : op.slots[k] # "pending"
  /\ LET pushed == op.outgoingTxs
                   \o OutgoingOfAll(op.walletAddress, BatchResults(op))
         frame  == [op EXCEPT !.outgoingTxs = pushed]
     IN  /\ \E sorted \in SortsNewestFirst(pushed) : op' = AfterBatch(frame, sorted)
         /\ limiter' = IF op'.pc = "details"
                       THEN Enqueued(limiter, DetailCallers(op.toFetch, op'.i), now)
                       ELSE limiter
  /\ UNCHANGED <<now, network, retry>>
  /\ UNCHANGED exceptClient

\* the listings of the account the client is called on: credits to it and
\* transfers it sends, oldest first
InitClient ==
  LET Histories ==
        {[t \in 1..Len(ks) |-> TxOfKind(ks[t], "A", t)] :
           ks \in (UNION {[1..k -> {"R", "W"}] : k \in 0..MaxSignatures})
                    \cup {<<"R", "N", "W">>, <<"N", "R">>, <<"V", "V">>, <<"W", "V", "W">>}}
  IN  Constructed({[w \in Wallets |-> IF w = "A" THEN h ELSE << >>] : h \in Histories},
                  {<< >>})

\* long listings of n signatures, newest first: the block times descend,
\* two entries to a block; listings of no entry, one entry, and around every
\* full page
InitRecent ==
  LET Listing(n) ==
        [i \in 1..n |-> [signature |-> <<"s", n + 1 - i>>,
                         blockTime |-> ((n - i) \div 2) + 1]]
      Lengths == {0, 1} \cup {p * batchSize + d : p \in 1..MaxPages, d \in {-1, 0, 1}}
  IN  Constructed({[w \in Wallets |-> IF w = "A" THEN Reverse(Listing(n)) ELSE << >>] :
                     n \in Lengths},
                  {<< >>})

NextRecent ==
  \/ RecentCall
  \/ PagePass
  \/ PageAttempt
  \/ RetryBackoff
  \/ PageFailed
  \/ RecentPageFetched

SpecRecent == InitRecent /\ [][NextRecent]_vars

NextClient ==
  \/ CountCall
  \/ CountPass
  \/ FirstCall
  \/ RecentCall
  \/ OutgoingCall
  \/ PagePass
  \/ PageAttempt
  \/ RetryBackoff
  \/ PageFailed
  \/ FirstPageFetched
  \/ RecentPageFetched
  \/ DetailPass
  \/ FirstBatchSettled
  \/ OutgoingBatchSettled

SpecClient == InitClient /\ [][NextClient]_vars

\* ------------------------------------------------------------------------
\* TelegramBotService and UserSession: one chat, one executeScan at a time;
\* while executeScan runs, the one update that is handled is /cancel
\* ------------------------------------------------------------------------

exceptBot == <<hist, analyzerVars, filterVars, runVars>>

\* this.exchangeConfig.exchanges: an exchange with wallets and one without
exchangeConfig ==
  [binance |-> [name |-> "Binance", wallets |-> ExchangeWalletsList],
   okx     |-> [name |-> "OKX", wallets |-> << >>]]

\* UserSession.toggleExchange: push, or splice of the key
toggleExchange(selectedExchanges, exchangeKey) ==
  IF indexOf(selectedExchanges, exchangeKey) = 0
  THEN Append(selectedExchanges, exchangeKey)
  ELSE SelectSeq(selectedExchanges, LAMBDA k : k # exchangeKey)

\* UserSession.reset
reset(s) == NewSession

\* allResults.sort of executeScan: oldest first, no timestamp last
RECURSIVE InsertOldestFirst(_, _)
InsertOldestFirst(x, sorted) ==
  IF sorted = << >> THEN <<x>>
  ELSE IF (LET a == Head(sorted)
                b == x
            IN  IF Falsy(a.timestamp) THEN 1
                ELSE IF Falsy(b.timestamp) THEN -1
                ELSE a.timestamp - b.timestamp) <= 0
       THEN <<Head(sorted)>> \o InsertOldestFirst(x, Tail(sorted))
       ELSE <<x>> \o sorted

RECURSIVE SortOldestFirst(_)
SortOldestFirst(rs) ==
  IF rs = << >> THEN << >>
  ELSE InsertOldestFirst(Head(rs), SortOldestFirst(Tail(rs)))

\* scanExchangeWallets, lines 247-272, for whatever filter the caller
\* passes: the requests getOutgoingSOLTransactions sends for each wallet (its
\* signature page and the details of the signatures in the window), then the
\* filtering, which reads filter.type and throws on null as soon as one
\* transfer is to be filtered
RECURSIVE FirstPass(_, _, _, _)
FirstPass(wallets, window, filter, exchangeName) ==
  IF wallets = << >> THEN [threw |-> FALSE, requests |-> << >>, txs |-> << >>]
  ELSE LET outgoingTxs == getOutgoingSOLTransactions(Head(wallets), window)
           requests == <<Request("signatures", UNDEF, now)>>
                       \o [k \in 1..Len(outgoingTxs) |->
                             Request("details", outgoingTxs[k].signature, now)]
           rest == FirstPass(Tail(wallets), window, filter, exchangeName)
       IN  IF filter = NoFilter /\ outgoingTxs # << >>
           THEN [threw |-> TRUE, requests |-> requests, txs |-> << >>]
           ELSE [threw |-> rest.threw,
                 requests |-> requests \o rest.requests,
                 txs |-> (IF filter = NoFilter THEN << >>
                          ELSE retainMatching(outgoingTxs, filter, exchangeName))
                         \o rest.txs]

\* the array the for-of of executeScan iterates: session.selectedExchanges
\* itself as long as the session holds the same array
Iterated(frame) ==
  IF frame.aliased THEN session.selectedExchanges ELSE frame.exchanges

\* the time windows of a scan: everything when maxAgeHours is null
ScanWindows(timeRange) ==
  IF Falsy(timeRange) THEN {AllSignatures}
  ELSE {AllSignatures, AllSignatures \ {"x2"}}

\* scanExchangeWallets is entered on a detector for wallets: the first pass,
\* and the scan either throws or goes on to its second pass
ScanEntered(sent, wallets, exchangeName, filter, mode, window, collectThrows) ==
  LET pass  == FirstPass(wallets, window, filter, exchangeName)
      threw == pass.threw \/ (collectThrows /\ wallets # << >>)
  IN  /\ network' = sent \o (IF collectThrows /\ wallets # << >>
                             THEN <<Request("signatures", UNDEF, now)>>
                             ELSE pass.requests)
      /\ scans' = scans + 1
      /\ returned' = << >>
      /\ ResetWalk("none")
      /\ analyzed' = 0
      /\ skipped' = 0
      /\ results' = << >>
      /\ walked' = << >>
      /\ analyzerCalls' = 0
      /\ scanPc' = IF threw THEN "thrown" ELSE "analyze"
      /\ scanCall' = IF threw THEN NoCall
                     ELSE [exchangeName |-> exchangeName, mode |-> mode]
      /\ allOutgoingTxs' = IF threw THEN << >> ELSE pass.txs
      /\ walletsToAnalyze' = IF threw THEN << >> ELSE uniqueWallets(pass.txs, {})

\* executeScan, lines 817-920, from iteration k of its for-of up to the next
\* await: the detector of the next exchange is built and its scan entered; a
\* throw is caught (message, state IDLE); after the last exchange the results
\* are sorted and shown (state RESULTS)
LoopFrom(frame, k) ==
  IF k > Len(Iterated(frame))
  THEN /\ shown' = [kind |-> "results",
                    results |-> SortOldestFirst(frame.allResults)]
       /\ session' = [session EXCEPT !.state = "RESULTS"]
       /\ exec' = NoExec
       /\ scanPc' = "idle"
       /\ returned' = << >>
       /\ UNCHANGED <<network, scanEntry, detectorVars, scans, scanCall,
                      allOutgoingTxs, walletsToAnalyze, analyzed, skipped,
                      results, walked, analyzerCalls, walkVars>>
  ELSE LET exchange == exchangeConfig[Iterated(frame)[k]]
       IN  /\ \E window \in ScanWindows(session.timeRange), collectThrows \in BOOLEAN :
                ScanEntered(network, exchange.wallets, exchange.name,
                            session.filter, session.scanType, window,
                            collectThrows)
           /\ processedWalletsCache' = EmptyCache
           /\ maxHops' = constructorMaxHops(configMaxHops)
           /\ UNCHANGED configMaxHops
           /\ IF scanPc' = "thrown"
              THEN /\ shown' = [kind |-> "error", results |-> << >>]
                   /\ session' = [session EXCEPT !.state = "IDLE"]
                   /\ exec' = NoExec
                   /\ scanEntry' = [scanEntry EXCEPT !.rejected = TRUE]
              ELSE /\ exec' = [frame EXCEPT !.pc = "scanning", !.i = k]
                   /\ UNCHANGED <<shown, session, scanEntry>>

\* the chat up to the end of its first scan: the detector is driven by the
\* bot, not called directly
Chatting ==
  /\ scanEntry.path # "direct"
  /\ exec.pc = "idle" => scans = 0

\* no executeScan is running
Configuring == Chatting /\ exec.pc = "idle"

\* callback toggle_exchange_<key>
ToggleExchange ==
  /\ Configuring
  /\ \E exchangeKey \in DOMAIN exchangeConfig :
       session' = [session EXCEPT
                     !.selectedExchanges = toggleExchange(@, exchangeKey)]
  /\ UNCHANGED <<exec, shown, scanEntry, exceptBot, engineVars, clientVars>>

\* callbacks scan_type_simple and scan_type_hopping, with showFilterInput
ScanType ==
  /\ Configuring
  /\ \E mode \in Modes :
       session' = [session EXCEPT
                     !.scanType = mode,
                     !.state = IF session.selectedExchanges = << >> THEN @
                               ELSE "FILTER_INPUT"]
  /\ UNCHANGED <<exec, shown, scanEntry, exceptBot, engineVars, clientVars>>

\* callback change_filter
ChangeFilter ==
  /\ Configuring
  /\ session' = [session EXCEPT !.state = "FILTER_INPUT"]
  /\ UNCHANGED <<exec, shown, scanEntry, exceptBot, engineVars, clientVars>>

\* a text message in state FILTER_INPUT: handleFilterInput stores the filter
\* it parsed, or answers that the text is invalid
FilterInput ==
  /\ Configuring
  /\ session.state = "FILTER_INPUT"
  /\ \/ \E filter \in Filters :
          session' = [session EXCEPT !.filter = filter,
                                     !.state = "TIME_RANGE_SELECTION"]
     \/ UNCHANGED session
  /\ UNCHANGED <<exec, shown, scanEntry, exceptBot, engineVars, clientVars>>

\* callbacks time_range_*
TimeRange ==
  /\ Configuring
  /\ session' = [session EXCEPT !.timeRange = 1000 * DefaultMaxAgeHours]
  /\ UNCHANGED <<exec, shown, scanEntry, exceptBot, engineVars, clientVars>>

\* /cancel: handleCancel resets the session; the array a running executeScan
\* iterates is no longer the one of the session
Cancel ==
  /\ Chatting
  /\ session' = reset(session)
  /\ exec' = IF exec.pc = "idle" THEN exec
             ELSE [exec EXCEPT !.cancelRequested = TRUE,
                               !.aliased = FALSE,
                               !.exchanges = Iterated(exec)]
  /\ UNCHANGED <<shown, scanEntry, exceptBot, engineVars, clientVars>>

RECURSIVE WalletsOf(_)
WalletsOf(exchangeKeys) ==
  IF exchangeKeys = << >> THEN << >>
  ELSE exchangeConfig[Head(exchangeKeys)].wallets \o WalletsOf(Tail(exchangeKeys))

\* callbacks scan_now and run_again, in whatever state the session is:
\* executeScan, lines 709-735, up to its first await
ScanNow ==
  /\ Configuring
  /\ LET refused == \/ session.selectedExchanges = << >>
                    \/ session.scanType = NULL
                    \/ Falsy(session.timeRange)
     IN  /\ session' = [session EXCEPT !.state = "SCANNING"]
         /\ scanEntry' = [path |-> "scan_now",
                          wallets |-> WalletsOf(session.selectedExchanges),
                          filter |-> session.filter,
                          rejected |-> refused]
         /\ shown' = IF refused THEN [kind |-> "refused", results |-> << >>]
                     ELSE NothingShown
         /\ exec' = IF refused THEN exec ELSE [NoExec EXCEPT !.pc = "announce"]
  /\ network' = << >>
  /\ UNCHANGED <<now, limiter, retry, op, exceptBot, engineVars>>

\* executeScan, lines 736-817: the scanning message was sent; requestCount
\* is reset and the for-of over session.selectedExchanges begins
ExecBegin ==
  /\ exec.pc = "announce"
  /\ limiter' = [limiter EXCEPT !.requestCount = 0]
  /\ LoopFrom([exec EXCEPT !.aliased = TRUE], 1)
  /\ UNCHANGED <<now, retry, op, exceptBot>>

\* executeScan, lines 849-859: scanExchangeWallets returned
ExecExchangeDone ==
  /\ exec.pc = "scanning"
  /\ scanPc = "returned"
  /\ LoopFrom([exec EXCEPT !.allResults = @ \o returned], exec.i + 1)
  /\ UNCHANGED <<now, limiter, retry, op, exceptBot>>

\* executeScan, lines 913-920: scanExchangeWallets threw in its second pass
ExecScanThrew ==
  /\ exec.pc = "scanning"
  /\ scanPc = "thrown"
  /\ shown' = [kind |-> "error", results |-> << >>]
  /\ session' = [session EXCEPT !.state = "IDLE"]
  /\ exec' = NoExec
  /\ scanEntry' = [scanEntry EXCEPT !.rejected = TRUE]
  /\ scanPc' = "idle"
  /\ UNCHANGED <<exceptBot, clientVars, detectorVars, scanCall,
                 allOutgoingTxs, walletsToAnalyze, analyzed, skipped, results,
                 returned, scans, walked, analyzerCalls, walkVars>>

\* scanExchangeWallets called directly on a detector, with any arguments
DirectScan ==
  /\ session = NewSession
  /\ exec.pc = "idle"
  /\ scanEntry.path \in {NULL, "direct"}
  /\ scanPc \in {"idle", "returned", "thrown"}
  /\ scans < MaxScans
  /\ \E wallets \in {<< >>, ExchangeWalletsList},
        filter \in Filters \cup {NoFilter, [type |-> "percent", min |-> 0, max |-> 0,
                                                   value |-> 0, tolerance |-> 0]},
        exchangeName \in {"Binance"}, mode \in Modes :
       /\ scanEntry' = [path |-> "direct", wallets |-> wallets,
                        filter |-> filter,
                        rejected |-> FirstPass(wallets, AllSignatures, filter,
                                               exchangeName).threw]
       /\ ScanEntered(<< >>, wallets, exchangeName, filter, mode,
                      AllSignatures, FALSE)
  /\ UNCHANGED <<now, limiter, retry, op, session, exec, shown, exceptBot,
                 detectorVars>>

\* detectionConfig.maxHops of the exchange configuration is 1
InitBot == Constructed(ScanLedgers, {<<1>>})

NextBot ==
  \/ ToggleExchange
  \/ ScanType
  \/ ChangeFilter
  \/ FilterInput
  \/ TimeRange
  \/ Cancel
  \/ ScanNow
  \/ ExecBegin
  \/ ExecExchangeDone
  \/ ExecScanThrew
  \/ DirectScan
  \/ ScanCacheHit
  \/ ScanWalkStart
  \/ ScanWalkDone
  \/ ScanWalkThrew
  \/ ScanReturn
  \/ WalkStep

SpecBot == InitBot /\ [][NextBot]_vars

\* ------------------------------------------------------------------------
\* executeScan calls that interleave: the webhook handler serves every update
\* with the one TelegramBotService and the one SolanaService, and a call of
\* executeScan gives way to the others at each of its awaits
\* ------------------------------------------------------------------------

exceptRuns == <<hist, engineVars, analyzerVars, filterVars, botVars>>

\* this.exchangeConfig.exchanges when two exchanges have wallets
exchangesWithWallets ==
  [binance |-> [name |-> "Binance", wallets |-> <<"S1">>],
   okx     |-> [name |-> "OKX", wallets |-> <<"S2">>]]

\* a constructor that hands every detector the Map created first
NewMapShared(heap) ==
  IF heap = << >> THEN [heap |-> <<EmptyCache>>, ref |-> 1]
  ELSE [heap |-> heap, ref |-> 1]

\* FreshWalletDetector.constructor, line 17: new Map()
NewMap(heap) == [heap |-> Append(heap, EmptyCache), ref |-> Len(heap) + 1]

\* Map.prototype.set
MapSet(map, key, value) ==
  [w \in (DOMAIN map) \cup {key} |-> IF w = key THEN value ELSE map[w]]

\* executeScan, lines 709-811, of a session with exchanges, a scan type, a
\* filter and a time range: the tracker is created, requestCount is reset;
\* the calls are numbered in the order they begin
RunStart(r) ==
  /\ runs[r].pc = "idle"
  /\ \A q \in 1..(r - 1) : runs[q].pc # "idle"
  /\ \E selectedExchanges \in {<<"binance">>, <<"okx", "binance">>} :
       runs' = [runs EXCEPT ![r] = [NoRun EXCEPT !.pc = "loop",
                                                 !.exchanges = selectedExchanges,
                                                 !.k = 1]]
  /\ limiter' = [limiter EXCEPT !.requestCount = 0]
  /\ UNCHANGED <<caches, now, network, retry, op, exceptRuns>>

\* executeScan, lines 813-842, and scanExchangeWallets, lines 240-291: the
\* detector of the next exchange is constructed and its first pass made;
\* every request of the pass went through rateLimitedDelay
RunScanEntered(r) ==
  /\ runs[r].pc = "loop"
  /\ runs[r].k <= Len(runs[r].exchanges)
  /\ LET exchange == exchangesWithWallets[runs[r].exchanges[runs[r].k]]
         created  == NewMap(caches)
         pass     == FirstPass(exchange.wallets, AllSignatures,
                               [type |-> "range", min |-> 1000, max |-> 8000,
                                value |-> 0, tolerance |-> 0],
                               exchange.name)
         n        == Len(pass.requests)
     IN  /\ caches' = created.heap
         /\ runs' = [runs EXCEPT ![r] = [@ EXCEPT
                       !.pc = "scanning",
                       !.detector = created.ref,
                       !.pending = uniqueWallets(pass.txs, {}),
                       !.results = << >>,
                       !.issued = @ + n]]
         /\ limiter' = [limiter EXCEPT !.requestCount = @ + n]
  /\ UNCHANGED <<now, network, retry, op, exceptRuns>>

\* scanExchangeWallets, lines 295-356, for the next destination: the cache of
\* the detector answers, or the destination is walked and the result cached;
\* a walk that throws ends executeScan in its catch block
RunDestination(r) ==
  /\ runs[r].pc = "scanning"
  /\ runs[r].pending # << >>
  /\ LET tx == Head(runs[r].pending)
         cache == caches[runs[r].detector]
         counted == [runs[r] EXCEPT
                       !.pending = Tail(@),
                       !.processed = @ + 1,
                       !.stats = [@ EXCEPT !.walletsScanned = @ + 1,
                                           !.apiRequests = limiter.requestCount]]
         Found(frame, isFresh) ==
           IF isFresh
           THEN [frame EXCEPT
                   !.results = Append(@, [wallet |-> tx.to, exchange |-> tx.exchange]),
                   !.stats = [@ EXCEPT !.freshWalletsFound = @ + 1]]
           ELSE frame
     IN  IF tx.to \in DOMAIN cache
         THEN /\ runs' = [runs EXCEPT ![r] =
                           Found([counted EXCEPT !.hits = @ \cup {cache[tx.to].writer}],
                                 cache[tx.to].isFresh)]
              /\ UNCHANGED <<caches, limiter>>
         ELSE \/ \E isFresh \in BOOLEAN, n \in 1..MaxWalkRequests :
                   /\ runs' = [runs EXCEPT ![r] =
                                Found([counted EXCEPT !.walked = Append(@, tx.to),
                                                      !.issued = @ + n],
                                      isFresh)]
                   /\ caches' = [caches EXCEPT ![runs[r].detector] =
                                   MapSet(@, tx.to, [isFresh |-> isFresh, writer |-> r])]
                   /\ limiter' = [limiter EXCEPT !.requestCount = @ + n]
              \/ /\ runs' = [runs EXCEPT ![r] = [counted EXCEPT !.pc = "failed"]]
                 /\ UNCHANGED <<caches, limiter>>
  /\ UNCHANGED <<now, network, retry, op, exceptRuns>>

\* executeScan, lines 844-858: scanExchangeWallets returned its results
RunScanReturned(r) ==
  /\ runs[r].pc = "scanning"
  /\ runs[r].pending = << >>
  /\ runs' = [runs EXCEPT ![r] = [@ EXCEPT
                !.pc = "loop",
                !.k = @ + 1,
                !.allResults = @ \o runs[r].results,
                !.stats = [@ EXCEPT
                             !.freshWalletsFound = @ + Len(runs[r].results),
                             !.apiRequests = limiter.requestCount]]]
  /\ UNCHANGED <<caches, clientVars, exceptRuns>>

\* executeScan, lines 861-909, after the last exchange: the totals are
\* reported with this.solanaService.requestCount
RunFinish(r) ==
  /\ runs[r].pc = "loop"
  /\ runs[r].k > Len(runs[r].exchanges)
  /\ runs' = [runs EXCEPT ![r] = [@ EXCEPT !.pc = "done",
                                           !.reported = limiter.requestCount]]
  /\ UNCHANGED <<caches, clientVars, exceptRuns>>

InitRuns == Constructed({[w \in Wallets |-> << >>]}, {<<1>>})

NextRuns ==
  \E r \in 1..MaxRuns :
    \/ RunStart(r)
    \/ RunScanEntered(r)
    \/ RunDestination(r)
    \/ RunScanReturned(r)
    \/ RunFinish(r)

SpecRuns == InitRuns /\ [][NextRuns]_vars

\* ------------------------------------------------------------------------
\* The chat: every update a session can receive, in any order. Amounts and
\* hours are carried in thousandths (2.5 is 2500), filter.tolerance in
\* percent
\* ------------------------------------------------------------------------

\* range check of handleFilterInput: if (max - min > 8)
MaxRangeWidth == 8

\* handleCustomTimeInput: if (hours > 72)
MaxCustomHours == 72

\* filter = { type: 'target', value: target, tolerance: 0.10 }
TargetTolerancePercent == 10

\* a JS number: NaN, or a value in thousandths; Infinity is carried as a
\* value above every other one
NaN == [nan |-> TRUE, v |-> 0]
Number(thousandths) == [nan |-> FALSE, v |-> thousandths]
Infinity == Number(1000000000)

\* null where a number is expected
NoNumber == [null |-> TRUE]

\* a word of a message: lead is what parseFloat reads at its start, plain
\* tells that this start is an unsigned decimal (\d+\.?\d*), tail is the
\* rest of the word
Word(lead, plain, tail) == [lead |-> lead, plain |-> plain, tail |-> tail]

parseFloat(word) == word.lead

isNaN(x) == x.nan

\* String.prototype.toLowerCase on the tails that occur
toLowerCase(tail) == IF tail = "H" THEN "h" ELSE tail

\* the range check without the limit on its width
WidthUnlimited(min, max) == FALSE

\* max - min > 8
TooWide(min, max) == max.v - min.v > MaxRangeWidth * 1000

\* handleFilterInput, lines 409-461: parts is text.trim().split(/\s+/)
handleFilterInput(s, parts) ==
  IF Len(parts) = 2
  THEN LET min == parseFloat(parts[1])
           max == parseFloat(parts[2])
       IN  IF isNaN(min) \/ isNaN(max) \/ min.v >= max.v \/ min.v < 0 THEN s
           ELSE IF TooWide(min, max) THEN s
           ELSE [s EXCEPT !.filter = [type |-> "range", min |-> min.v, max |-> max.v,
                                      value |-> 0, tolerance |-> 0],
                          !.state = "TIME_RANGE_SELECTION"]
  ELSE IF Len(parts) = 1
  THEN LET target == parseFloat(parts[1])
       IN  IF isNaN(target) \/ target.v <= 0 THEN s
           ELSE [s EXCEPT !.filter = [type |-> "target", min |-> 0, max |-> 0,
                                      value |-> target.v,
                                      tolerance |-> TargetTolerancePercent],
                          !.state = "TIME_RANGE_SELECTION"]
  ELSE s

\* parseCustomTime, lines 553-583: both patterns are a plain number, optional
\* white space and a unit; null when neither matches. The minutes of the
\* messages divide by 60 without a remainder in thousandths
parseCustomTime(parts) ==
  LET glued  == Len(parts) = 1 /\ parts[1].plain
      spaced == /\ Len(parts) = 2
                /\ parts[1].plain /\ parts[1].tail = ""
                /\ isNaN(parts[2].lead)
      unit   == IF glued THEN toLowerCase(parts[1].tail)
                ELSE IF spaced THEN toLowerCase(parts[2].tail)
                ELSE ""
      value  == parts[1].lead.v
  IN  IF unit \in {"m", "minute", "minutes"} THEN Number(value \div 60)
      ELSE IF unit \in {"h", "hour", "hours"} THEN Number(value)
      ELSE IF unit \in {"d", "day", "days"} THEN Number(value * 24)
      ELSE NoNumber

\* showFilterInput, lines 338-349
showFilterInput(s) ==
  IF s.selectedExchanges = << >> \/ s.scanType = NULL THEN s
  ELSE [s EXCEPT !.state = "FILTER_INPUT"]

\* showScanConfirmation, lines 624-633: without a filter it goes back to the
\* filter input; otherwise it sends the summary and sets nothing
showScanConfirmation(s) ==
  IF s.filter = NoFilter THEN showFilterInput(s) ELSE s

\* hours > 72
TooLong(hours) == hours.v > MaxCustomHours * 1000

\* handleCustomTimeInput, lines 585-622
handleCustomTimeInput(s, parts) ==
  LET hours == parseCustomTime(parts)
  IN  IF hours = NoNumber THEN s
      ELSE IF isNaN(hours) \/ hours.v <= 0 THEN s
      ELSE IF TooLong(hours) THEN s
      ELSE showScanConfirmation([s EXCEPT !.timeRange = hours.v])

\* handleStart, lines 46-49
handleStart(s) == [s EXCEPT !.state = "FEATURE_SELECTION"]

\* the messages a chat sends, as their words: the Menu button is MenuText, a
\* text that starts with '/' is CommandText
MenuText == <<Word(NaN, FALSE, "Menu")>>
CommandText == <<Word(NaN, FALSE, "/")>>

\* handleTextMessage, lines 380-407
handleTextMessage(s, parts) ==
  IF parts = MenuText THEN handleStart(s)
  ELSE IF parts = CommandText THEN s
  ELSE IF s.state = "FILTER_INPUT" THEN handleFilterInput(s, parts)
  ELSE IF s.state = "CUSTOM_TIME_INPUT" THEN handleCustomTimeInput(s, parts)
  ELSE s

\* callback select_all, lines 100-108, over the keys in configuration order
RECURSIVE selectAll(_, _)
selectAll(selectedExchanges, keys) ==
  IF keys = << >> THEN selectedExchanges
  ELSE LET key == Head(keys)
           chosen == IF exchangeConfig[key].wallets # << >>
                        /\ indexOf(selectedExchanges, key) = 0
                     THEN toggleExchange(selectedExchanges, key)
                     ELSE selectedExchanges
       IN  selectAll(chosen, Tail(keys))

\* the hours of the callbacks time_range_*, lines 121-138
TimeRangeButtons ==
  [time_range_3hours |-> 3, time_range_6hours |-> 6, time_range_12hours |-> 12,
   time_range_1day |-> 24, time_range_2days |-> 48, time_range_3days |-> 72]

\* handleCallbackQuery, lines 71-153, for every data but scan_now and
\* run_again
handleCallbackQuery(s, data) ==
  IF data \in {"feature_fresh", "back_to_exchanges"}
    THEN [s EXCEPT !.state = "EXCHANGE_SELECTION"]
  ELSE IF data = "toggle_exchange_binance"
    THEN [s EXCEPT !.selectedExchanges = toggleExchange(@, "binance")]
  ELSE IF data = "toggle_exchange_okx"
    THEN [s EXCEPT !.selectedExchanges = toggleExchange(@, "okx")]
  ELSE IF data = "select_all"
    THEN [s EXCEPT !.selectedExchanges = selectAll(@, <<"binance", "okx">>)]
  ELSE IF data = "deselect_all"
    THEN [s EXCEPT !.selectedExchanges = << >>]
  ELSE IF data = "continue_to_scan_type"
    THEN [s EXCEPT !.state = "SCAN_TYPE_SELECTION"]
  ELSE IF data = "scan_type_simple"
    THEN showFilterInput([s EXCEPT !.scanType = "simple"])
  ELSE IF data = "scan_type_hopping"
    THEN showFilterInput([s EXCEPT !.scanType = "hopping"])
  ELSE IF data \in DOMAIN TimeRangeButtons
    THEN showScanConfirmation([s EXCEPT !.timeRange = 1000 * TimeRangeButtons[data]])
  ELSE IF data = "time_range_custom"
    THEN [s EXCEPT !.state = "CUSTOM_TIME_INPUT"]
  ELSE IF data = "change_filter"
    THEN [s EXCEPT !.state = "FILTER_INPUT"]
  ELSE IF data = "back_to_features"
    THEN handleStart(s)
  ELSE s

\* the buttons a chat presses
CallbackData ==
  {"feature_fresh", "back_to_exchanges", "toggle_exchange_binance",
   "select_all", "deselect_all", "continue_to_scan_type",
   "scan_type_simple", "scan_type_hopping", "time_range_3hours",
   "time_range_1day", "time_range_3days", "time_range_custom", "change_filter",
   "back_to_features", "feature_tracker_soon"}

\* what a chat types: "1 3", "0 8", "1 9.001", "3 1", "-1 3", "1 x", "1 Infinity",
\* "2.5", "0", "-2", "Infinity", "30m", "4320m", "4326 minutes", "0h", "3 H",
\* "72.001h", "-3h", "3d", "4 days", "abc", "1 2 3", the Menu button, a command
Texts ==
  LET n(t) == Word(Number(t), TRUE, "")
      u(t, tail) == Word(Number(t), TRUE, tail)
      w(tail) == Word(NaN, FALSE, tail)
  IN  {<<n(1000), n(3000)>>, <<n(0), n(8000)>>, <<n(1000), n(9001)>>,
       <<n(3000), n(1000)>>, <<Word(Number(-1000), FALSE, ""), n(3000)>>,
       <<n(1000), w("x")>>, <<n(1000), Word(Infinity, FALSE, "")>>,
       <<n(2500)>>, <<n(0)>>, <<Word(Number(-2000), FALSE, "")>>,
       <<Word(Infinity, FALSE, "")>>,
       <<u(30000, "m")>>, <<u(4320000, "m")>>, <<n(4326000), w("minutes")>>,
       <<u(0, "h")>>, <<n(3000), w("H")>>, <<u(72001, "h")>>,
       <<Word(Number(-3000), FALSE, "h")>>, <<u(3000, "d")>>, <<n(4000), w("days")>>,
       <<w("abc")>>, <<n(1000), n(2000), n(3000)>>, MenuText, CommandText}

\* a callback other than scan_now and run_again is handled
CallbackQuery ==
  /\ \E data \in CallbackData : session' = handleCallbackQuery(session, data)
  /\ UNCHANGED <<exec, shown, scanEntry, exceptBot, engineVars, clientVars>>

\* a text message is handled
TextMessage ==
  /\ \E parts \in Texts : session' = handleTextMessage(session, parts)
  /\ UNCHANGED <<exec, shown, scanEntry, exceptBot, engineVars, clientVars>>

\* the command /start
StartCommand ==
  /\ session' = handleStart(session)
  /\ UNCHANGED <<exec, shown, scanEntry, exceptBot, engineVars, clientVars>>

\* executeScan, lines 736-920, as far as the session goes: the scan that
\* scan_now began ends with the results shown or with an error caught
ExecSettles ==
  /\ exec.pc = "announce"
  /\ \E state \in {"RESULTS", "IDLE"} : session' = [session EXCEPT !.state = state]
  /\ exec' = NoExec
  /\ UNCHANGED <<shown, scanEntry, exceptBot, engineVars, clientVars>>

InitChat == Constructed({[w \in Wallets |-> << >>]}, {<<1>>})

NextChat ==
  \/ CallbackQuery
  \/ TextMessage
  \/ StartCommand
  \/ Cancel
  \/ ScanNow
  \/ ExecSettles

SpecChat == InitChat /\ [][NextChat]_vars

\* ------------------------------------------------------------------------
\* Properties of detectFreshWallet (checked under Spec)
\* ------------------------------------------------------------------------

NoDuplicates(s) == \A i, j \in 1..Len(s) : i # j => s[i] # s[j]

Last(s) == s[Len(s)]

\* C1: for every configured config.maxHops >= 0, 0 included, every result
\* returned by detectFreshWallet has hops <= the configured maxHops.
C1_HopsWithinConfiguredBudget ==
  (walkPc = "done" /\ configMaxHops # << >>) => result.hops <= configMaxHops[1]

\* C2: no address occurs twice in the path of a result, and when the analysis
\* returns a HOP whose next wallet is already in the path the walk ends
\* there, not fresh, with path and hops as they were before that analysis.
C2_CycleLaw ==
  [][/\ (walkPc' = "done" => NoDuplicates(result'.path))
     /\ (walkPc = "analyzed" /\ analysis.pattern = "HOP"
         /\ analysis.nextWallet \in Range(path))
        => /\ walkPc' = "done"
           /\ result'.isFresh = FALSE
           /\ result'.path = path
           /\ result'.hops = hops
           /\ path' = path /\ hops' = hops]_vars

C2_Witness ==
  /\ walkPc = "done"
  /\ result.reason[1] = "circular"
  /\ result.hops >= 1

\* C3: when a HOP resolves to a member of exchangeWallets the walk ends at
\* that hop, not fresh, the source address is not appended, hops is not
\* incremented, whatever hop budget remains.
C3_SourceReentryLaw ==
  [][(walkPc = "analyzed" /\ analysis.pattern = "HOP"
      /\ analysis.nextWallet \in Sources)
     => /\ walkPc' = "done"
        /\ result'.isFresh = FALSE
        /\ result'.path = path
        /\ analysis.nextWallet \notin Range(result'.path)
        /\ result'.hops = hops
        /\ hops' = hops]_vars

C3_Witness ==
  /\ walkPc = "done"
  /\ result.reason[1] = "back_to_exchange"
  /\ result.hops >= 1
  /\ maxHops - result.hops >= 2

\* C4: in hopping mode every fresh result is preceded, in the same walk, by a
\* verifyFinalWallet call on the final account that succeeded, for VIRGIN as
\* for ONLY_RECEIVING.
C4_FreshImpliesVerified ==
  (walkPc = "done" /\ walk.mode = "hopping" /\ result.isFresh)
  => \E i \in 1..Len(verifications) :
       /\ verifications[i].wallet = result.finalWallet
       /\ ~verifications[i].threw
       /\ verifications[i].isFinal

\* C5: in simple mode no pattern analysis is run, hops = 0 and path is the
\* starting account alone, and the result is fresh only if the account has
\* exactly one transaction and that transaction is a RECEIVE.
C5_SimpleModeExactlyOne ==
  (walkPc = "done" /\ walk.mode = "simple")
  => /\ analyses = 0
     /\ result.hops = 0
     /\ result.path = <<walk.initialWallet>>
     /\ result.isFresh
        => /\ Len(SignaturesOf(walk.initialWallet)) = 1
           /\ getTransactionType(walk.initialWallet,
                                 SignaturesOf(walk.initialWallet)[1]) = "RECEIVE"

\* C6: every result has path[0] = the starting account, hops = len(path) - 1,
\* finalWallet = last(path) when fresh and finalWallet = null when not fresh.
C6_ResultShape ==
  walkPc = "done"
  => /\ result.path[1] = walk.initialWallet
     /\ result.hops = Len(result.path) - 1
     /\ result.hops = hops
     /\ result.isFresh => result.finalWallet = Last(result.path)
     /\ ~result.isFresh => result.finalWallet = NULL

C6_Witness ==
  /\ walkPc = "done"
  /\ result.isFresh
  /\ result.hops = 2
  /\ result.finalWallet = "C"

\* the step a walk takes once it has advanced maxHops times
AtHopBudget == walkPc = "loop" /\ ~(hops < maxHops)

\* what C11 says of that step when the verification returns
MaxHopsVerdict ==
  /\ hops = maxHops
  /\ verifications = << >>
  /\ Len(verifications') = 1
  /\ verifications'[1].wallet = Last(path)
  /\ analyses' = analyses
  /\ path' = path
  /\ walkPc' = "done" =>
       /\ result'.isFresh = verifications'[1].isFinal
       /\ result'.isFresh => result'.finalWallet = Last(path)
       /\ result'.path = path
       /\ result'.hops = maxHops

\* C11 as claimed: when a walk has advanced maxHops times without ending,
\* exactly one verifyFinalWallet is run on the last account of the path, no
\* further pattern analysis is run, and the walk then ends with a result
\* whose isFresh is the outcome of that verification, finalWallet = last(path)
\* when fresh, and hops = maxHops.
C11_MaxHopsVerifiesAndReturns ==
  [][AtHopBudget => (MaxHopsVerdict /\ walkPc' = "done")]_vars

\* C11 amended: the same, except that when the verification itself rejects
\* (its signature listing fails) the walk rejects and returns no result.
C11_MaxHopsVerifiesOnce ==
  [][AtHopBudget
     => /\ MaxHopsVerdict
        /\ walkPc' \in {"done", "thrown"}
        /\ walkPc' = "thrown" <=> verifications'[1].threw]_vars

C11_Witness ==
  /\ walkPc = "done"
  /\ result.reason[1] = "fresh_max_hops"
  /\ result.hops = maxHops
  /\ Len(result.path) = maxHops + 1
  /\ Len(verifications) = 1

\* ------------------------------------------------------------------------
\* Properties of TransactionAnalyzer (checked under SpecAnalyzer)
\* ------------------------------------------------------------------------

\* the credits and debits of an account among fetched transactions
CreditsOf(a, txs) == SelectSeq(txs, LAMBDA tx : getTransactionType(a, tx) = "RECEIVE")
DebitsOf(a, txs) == SelectSeq(txs, LAMBDA tx : getTransactionType(a, tx) = "WITHDRAW")

RECURSIVE BalanceChange(_, _)
BalanceChange(a, txs) ==
  IF txs = << >> THEN 0
  ELSE LET k == indexOf(Head(txs).accountKeys, a)
       IN  Head(txs).postBalances[k] - Head(txs).preBalances[k]
           + BalanceChange(a, Tail(txs))

LastTried == dynamic.tried[Len(dynamic.tried)]

\* C17: analyzeFirstTransactions(account, n) classifies by the credit count
\* c and debit count d of the earliest n transactions it fetched: none ->
\* VIRGIN; c >= 1, d = 0 -> ONLY_RECEIVING reporting c; c >= 1, d = 1 -> HOP
\* with nextWallet the resolved debit destination when debited / credited is
\* at least 80 percent, OTHER below; anything else -> OTHER; nextWallet is
\* set on a HOP only.
C17_WindowClassification ==
  dynamic.tried # << >> =>
    LET a  == dynamic.walletAddress
        c  == Len(CreditsOf(a, transactions))
        d  == Len(DebitsOf(a, transactions))
        credited == BalanceChange(a, CreditsOf(a, transactions))
        debited  == 0 - BalanceChange(a, DebitsOf(a, transactions))
        r  == dynamic.analysis
    IN  /\ \A k \in 1..Len(transactions) :
             /\ transactions[k] \in Range(SignaturesOf(a))
             /\ transactions[k].blockTime <= LastTried.limit
             /\ k > 1 => transactions[k - 1].blockTime < transactions[k].blockTime
        /\ Len(transactions) = 0 => r.pattern = "VIRGIN"
        /\ (c >= 1 /\ d = 0) => (r.pattern = "ONLY_RECEIVING" /\ r.receives = c)
        /\ (c >= 1 /\ d = 1 /\ debited * 100 >= 80 * credited)
           => /\ r.pattern = "HOP"
              /\ r.receives = c
              /\ r.nextWallet = getWithdrawDestination(a, DebitsOf(a, transactions)[1])
        /\ (c >= 1 /\ d = 1 /\ debited * 100 < 80 * credited) => r.pattern = "OTHER"
        /\ (Len(transactions) > 0 /\ (c = 0 \/ d >= 2)) => r.pattern = "OTHER"
        /\ r.pattern # "HOP" => r.nextWallet = UNDEF

C17_Witness ==
  /\ dynamic.tried # << >>
  /\ dynamic.analysis.pattern = "HOP"
  /\ dynamic.analysis.receives = 1
  /\ dynamic.analysis.nextWallet = "B"
  /\ LET a == dynamic.walletAddress
     IN  (0 - BalanceChange(a, DebitsOf(a, transactions))) * 100
           = 80 * BalanceChange(a, CreditsOf(a, transactions))

Definitive(t) ==
  \/ t.pattern \in {"HOP", "VIRGIN"}
  \/ t.pattern = "ONLY_RECEIVING" /\ t.receives = 1

\* C18: analyzeWithDynamicLimit(account, maxN) evaluates its windows in
\* ladder order, each larger than the one before, and returns the result of
\* the first window that is HOP, VIRGIN or ONLY_RECEIVING with one credit,
\* evaluating no later window; when no window is definitive it returns the
\* result of the final window, which is the largest one evaluated.
C18_LadderReturnsLargestWindow ==
  dynamic.pc = "returned" =>
    LET tried == dynamic.tried
        n == Len(tried)
    IN  /\ \A k \in 1..(n - 1) : ~Definitive(tried[k])
        /\ \A k \in 1..(n - 1) : tried[k].limit <= tried[k + 1].limit
        /\ tried[n].pattern = dynamic.analysis.pattern
        /\ tried[n].receives = dynamic.analysis.receives
        /\ \A k \in 1..n : tried[k].limit <= tried[n].limit \/ Definitive(tried[n])


\* ------------------------------------------------------------------------
\* Properties of matchesFilter (checked under SpecFilter)
\* ------------------------------------------------------------------------

\* what C19 says a filter accepts
Accepts(filter, amount) ==
  \/ filter.type = "range" /\ filter.min <= amount /\ amount <= filter.max
  \/ filter.type = "target"
     /\ Abs(amount - filter.value) * 100 <= filter.value * filter.tolerance

Tagged(tx, exchangeName) ==
  [signature |-> tx.signature, timestamp |-> tx.timestamp, amountSOL |-> tx.amountSOL,
   from |-> tx.from, to |-> tx.to, exchange |-> exchangeName]

\* C19: matchesFilter(amount, filter) is true for a range filter iff
\* min <= amount <= max, both bounds included, true for a target filter iff
\* |amount - target| <= target * tolerance, false for any other filter type;
\* the transfers retained for deduplication and walking are exactly those
\* for which it is true.
C19_MatchesFilter ==
  filterCall.pc = "returned" =>
    LET all == OutgoingWith(filterCall.amount, filterCall.other)
        f   == filterCall.filter
    IN  /\ filterCall.matched <=> Accepts(f, filterCall.amount)
        /\ f.type \notin {"range", "target"} => ~filterCall.matched
        /\ filterCall.filtered =
             [i \in 1..Len(SelectSeq(all, LAMBDA tx : Accepts(f, tx.amountSOL))) |->
                Tagged(SelectSeq(all, LAMBDA tx : Accepts(f, tx.amountSOL))[i], "Binance")]
        /\ \A i \in 1..Len(filterCall.unique) :
             Accepts(f, filterCall.unique[i].amountSOL)

C19_Witness ==
  /\ filterCall.pc = "returned"
  /\ filterCall.filter.type = "target"
  /\ filterCall.filter.tolerance = 10
  /\ filterCall.amount = 11
  /\ filterCall.other = 12
  /\ filterCall.matched
  /\ Len(filterCall.filtered) = 1

\* ------------------------------------------------------------------------
\* Properties of retryWithBackoff (checked under SpecRetry)
\* ------------------------------------------------------------------------

\* C15: retryWithBackoff(fn, maxRetries) calls fn at most maxRetries times,
\* 3 by default; after attempt k failed on a 429 and was not the last, it
\* waits min(1000 * 2^k, 8000) ms and retries; another error is rethrown
\* after the attempt it occurred on, with no retry; a 429 on the last
\* attempt is rethrown; the first value fn resolves to is returned and fn is
\* not called again.
C15_RetryWithBackoff ==
  LET calls == Len(retry.outcomes)
      last  == retry.outcomes[calls]
  IN  /\ calls <= retry.maxRetries
      /\ \A k \in 1..(calls - 1) : retry.outcomes[k] = "429"
      /\ \A k \in 1..Len(retry.waited) :
           retry.waited[k] = (IF 1000 * 2^(k - 1) < 8000 THEN 1000 * 2^(k - 1) ELSE 8000)
      /\ retry.pc = "attempt" => Len(retry.waited) = calls /\ calls < retry.maxRetries
      /\ retry.pc = "backoff" =>
           /\ last = "429" /\ calls < retry.maxRetries
           /\ Len(retry.waited) = calls - 1
      /\ (retry.pc = "returned" /\ retry.maxRetries > 0) =>
           /\ last = "ok" /\ retry.value \in FnValues
           /\ Len(retry.waited) = calls - 1
      /\ retry.pc = "thrown" =>
           /\ last \in {"429", "other"} /\ retry.value = last
           /\ last = "429" => calls = retry.maxRetries
           /\ Len(retry.waited) = calls - 1
      /\ (calls > 0 /\ last = "other") => retry.pc = "thrown"
      /\ (calls > 0 /\ last = "ok") => retry.pc = "returned"
      /\ (calls > 0 /\ last = "429" /\ calls = retry.maxRetries) => retry.pc = "thrown"

C15_Witness ==
  /\ retry.pc = "thrown"
  /\ retry.maxRetries = 6
  /\ retry.waited = <<1000, 2000, 4000, 8000, 8000>>
  /\ now = 23000

\* ------------------------------------------------------------------------
\* Properties of scanExchangeWallets (checked under SpecScan)
\* ------------------------------------------------------------------------

\* C7: when the analysis of one destination fails the scan does not abort.
C7_ScanSurvivesWalkFailure ==
  ~(scanPc = "thrown" /\ walkPc = "rejected")

\* the position of the first retained transfer to a destination
FirstTo(txs, dest) ==
  CHOOSE i \in 1..Len(txs) :
    /\ txs[i].to = dest
    /\ \A j \in 1..(i - 1) : txs[j].to # dest

\* C8: within one scanExchangeWallets call every destination is walked at
\* most once, and the transfer kept for it is the first one met in
\* collection order.
C8_WalkedOncePerScan ==
  /\ NoDuplicates(walked)
  /\ NoDuplicates([i \in 1..Len(walletsToAnalyze) |-> walletsToAnalyze[i].to])
  /\ \A k \in 1..Len(allOutgoingTxs) :
       \E i \in 1..Len(walletsToAnalyze) :
         /\ walletsToAnalyze[i].to = allOutgoingTxs[k].to
         /\ walletsToAnalyze[i] =
              allOutgoingTxs[FirstTo(allOutgoingTxs, allOutgoingTxs[k].to)]
  /\ walkPc \in {"simple", "loop", "analyzed", "done"}
     => walk.txInfo =
          txInfoOf(allOutgoingTxs[FirstTo(allOutgoingTxs, walk.initialWallet)])

C8_Witness ==
  /\ scanPc = "walking"
  /\ walkPc = "done"
  /\ \E i, j \in 1..Len(allOutgoingTxs) :
       /\ i < j
       /\ allOutgoingTxs[i].to = walk.initialWallet
       /\ allOutgoingTxs[j].to = walk.initialWallet
       /\ allOutgoingTxs[i].from # allOutgoingTxs[j].from
  /\ \E i, j \in 1..Len(allOutgoingTxs) :
       /\ i < j
       /\ allOutgoingTxs[i].to = walk.initialWallet
       /\ allOutgoingTxs[j].to = walk.initialWallet
       /\ allOutgoingTxs[i].from = allOutgoingTxs[j].from

\* C9: the cache is write-once per key, the stored value is the result of
\* the first walk of the address, and a cache hit makes no analyzer call and
\* appends the cached result itself when it is fresh.
C9_CacheWriteOnce ==
  [][/\ \A w \in DOMAIN processedWalletsCache :
          /\ w \in DOMAIN processedWalletsCache'
          /\ processedWalletsCache'[w] = processedWalletsCache[w]
     /\ \A w \in DOMAIN processedWalletsCache' \ DOMAIN processedWalletsCache :
          /\ walkPc = "done"
          /\ w = walk.initialWallet
          /\ processedWalletsCache'[w] = result
     /\ (scanPc = "analyze" /\ analyzed' = analyzed + 1
         /\ NextTx.to \in DOMAIN processedWalletsCache)
        => /\ analyzerCalls' = analyzerCalls
           /\ walked' = walked
           /\ walkPc' = walkPc
           /\ scanPc' = "analyze"
           /\ results' = IF processedWalletsCache[NextTx.to].isFresh
                         THEN Append(results, processedWalletsCache[NextTx.to])
                         ELSE results]_vars

C9_Witness ==
  /\ scanPc = "analyze"
  /\ skipped >= 1
  /\ walked = << >>
  /\ Len(results) >= 1
  /\ results[1].signature \notin
       {walletsToAnalyze[i].signature : i \in 1..Len(walletsToAnalyze)}

\* the cached results of the destinations of this call, in walk order
CachedInOrder ==
  [i \in 1..Len(walletsToAnalyze) |-> processedWalletsCache[walletsToAnalyze[i].to]]

CarriesTransfer(r, tx) ==
  /\ r.exchange = tx.exchange
  /\ r.amount = tx.amountSOL
  /\ r.signature = tx.signature
  /\ r.timestamp = tx.timestamp

\* C10 as claimed: the returned list holds exactly the fresh results of the
\* unique destinations, each carrying the exchange tag, amount, signature
\* and timestamp of the transfer retained for its destination by this call,
\* and its hop path.
C10_ReturnedCarryRetainedTransfer ==
  [][(scanPc = "analyze" /\ scanPc' = "returned")
     => /\ returned' = SelectSeq(CachedInOrder, LAMBDA r : r.isFresh)
        /\ \A i \in 1..Len(walletsToAnalyze) :
             /\ CarriesTransfer(CachedInOrder[i], walletsToAnalyze[i])
             /\ CachedInOrder[i].path[1] = walletsToAnalyze[i].to]_vars

\* C10 amended: the returned list holds exactly the fresh results of the
\* unique destinations; a result of a walk made by this call carries the
\* exchange tag, amount, signature and timestamp of the transfer this call
\* retained for the destination, a result taken from the cache is the cached
\* one; each has the destination as the head of its hop path.
C10_ReturnedFreshResults ==
  [][(scanPc = "analyze" /\ scanPc' = "returned")
     => /\ returned' = SelectSeq(CachedInOrder, LAMBDA r : r.isFresh)
        /\ \A i \in 1..Len(walletsToAnalyze) :
             /\ walletsToAnalyze[i].to \in Range(walked)
                => CarriesTransfer(CachedInOrder[i], walletsToAnalyze[i])
             /\ CachedInOrder[i].path[1] = walletsToAnalyze[i].to
             /\ CachedInOrder[i].hops = Len(CachedInOrder[i].path) - 1]_vars

C10_Witness ==
  /\ scanPc = "returned"
  /\ Len(returned) >= 2
  /\ returned[1].exchange # returned[2].exchange

\* ------------------------------------------------------------------------
\* Properties of the SolanaService operations (checked under SpecClient)
\* ------------------------------------------------------------------------

\* any two passes through rateLimitedDelay are MIN_REQUEST_INTERVAL apart
PassesSpaced ==
  \A i \in 1..(Len(limiter.passes) - 1) :
    limiter.passes[i + 1] - limiter.passes[i] >= MIN_REQUEST_INTERVAL

\* C14: every ledger request (page fetch, detail fetch, count fetch, each
\* retried attempt) is sent after a pass through rateLimitedDelay of its own,
\* so there are never more requests than passes, and any two passes are at
\* least MIN_REQUEST_INTERVAL apart
C14_EveryRequestRateLimited ==
  /\ Len(network) <= Len(limiter.passes)
  /\ PassesSpaced

\* the transfers of a result that carry the signature of entry
SentIn(transfers, entry) ==
  SelectSeq(transfers, LAMBDA tx : tx.signature = entry.signature)

\* C16: when detail fetches fail, getFirstTransactions and
\* getOutgoingSOLTransactions are not aborted and go on to completion: the
\* first returns exactly the entries whose fetch succeeded, in order; the
\* second returns for every entry whose fetch succeeded the transfers of that
\* entry, and no transfer for an entry whose fetch failed
C16_FailedDetailFetchSkipped ==
  /\ op.pc = "thrown" => op.failed = {}
  /\ op.pc = "details"
       => \/ limiter.queue # << >>
          \/ \A k \in 1..Len(op.slots) : op.slots[k] # "pending"
  /\ (op.pc = "returned" /\ op.name = "getFirstTransactions")
       => /\ op.result = SelectSeq(op.toFetch,
                                   LAMBDA sig : sig.signature \notin op.failed)
          /\ \E sorted \in Sorts(SignaturesOf(op.walletAddress)) :
               op.result = SelectSeq(Slice(sorted, op.limit),
                                     LAMBDA sig : sig.signature \notin op.failed)
  /\ (op.pc = "returned" /\ op.name = "getOutgoingSOLTransactions")
       => \A k \in 1..Len(op.toFetch) :
            SentIn(op.result, op.toFetch[k])
              = IF op.toFetch[k].signature \in op.failed THEN << >>
                ELSE OutgoingFrom(op.walletAddress, op.toFetch[k])

\* a listing of more than one batch was fetched, the fetch of an entry that
\* sends a transfer failed, and the transfer of another entry is returned
C16_Witness ==
  /\ op.pc = "returned"
  /\ op.name = "getOutgoingSOLTransactions"
  /\ Len(op.toFetch) > parallelBatchSize
  /\ op.result # << >>
  /\ \E k \in 1..Len(op.toFetch) :
       /\ op.toFetch[k].signature \in op.failed
       /\ OutgoingFrom(op.walletAddress, op.toFetch[k]) # << >>

\* ------------------------------------------------------------------------
\* Properties of getRecentTransactions (checked under SpecRecent)
\* ------------------------------------------------------------------------

SignatureRequests == SelectSeq(network, LAMBDA r : r.kind = "signatures")

\* the k-th page of the listing of the account of the call
PageNo(k) ==
  LET listing == SignaturesOf(op.walletAddress)
  IN  SubSeq(listing, (k - 1) * batchSize + 1, Min(k * batchSize, Len(listing)))

InWindow(sig) == op.maxAgeHours = 0 \/ sig.blockTime >= op.cutoffTime

\* a page after which the paging stops: empty, short, or holding an entry
\* older than the cutoff
LastPage(page) ==
  \/ page = << >>
  \/ Len(page) < batchSize
  \/ \E k \in 1..Len(page) : ~InWindow(page[k])

\* C20: getRecentTransactions(account, 0, maxAgeHours) requests pages of 100
\* in cursor order (the first without cursor, each next one after the last
\* signature of the page before, a retried request with the same cursor), goes
\* on after every page that is full and in the window, stops after the first
\* page that is empty, short or holds an entry older than the cutoff, and
\* returns every in-window signature of the pages fetched and no signature
\* older than the cutoff
C20_RecentPagination ==
  (op.name = "getRecentTransactions" /\ op.limit = 0)
    => /\ \A i \in 1..Len(SignatureRequests) :
            IF i = 1 THEN SignatureRequests[i].arg = UNDEF
            ELSE \/ SignatureRequests[i].arg = SignatureRequests[i - 1].arg
                 \/ \E k \in 1..Len(op.pages) :
                      /\ Len(PageNo(k)) = batchSize
                      /\ SignatureRequests[i].arg = PageNo(k)[batchSize].signature
                      /\ SignatureRequests[i - 1].arg
                           = IF k = 1 THEN UNDEF
                             ELSE PageNo(k - 1)[batchSize].signature
       /\ \A k \in 1..Len(op.pages) :
            /\ op.pages[k] = Len(PageNo(k))
            /\ k < Len(op.pages) => ~LastPage(PageNo(k))
       /\ op.pc = "returned"
            => /\ Len(op.pages) >= 1
               /\ LastPage(PageNo(Len(op.pages)))
               /\ op.result
                    = SelectSeq(SubSeq(SignaturesOf(op.walletAddress), 1,
                                       Min(Len(op.pages) * batchSize,
                                           Len(SignaturesOf(op.walletAddress)))),
                                InWindow)
               /\ \A k \in 1..Len(op.result) :
                    op.maxAgeHours # 0
                      => op.result[k].blockTime >= op.cutoffTime

\* a call with a window went past the first page, stopped on the second page
\* at an entry older than the cutoff and returned more than a page
C20_Witness ==
  /\ op.pc = "returned"
  /\ op.name = "getRecentTransactions"
  /\ op.limit = 0
  /\ op.maxAgeHours # 0
  /\ Len(op.pages) = 2
  /\ op.reachedTimeLimit
  /\ Len(op.result) > batchSize
  /\ Len(op.result) < Len(SignaturesOf(op.walletAddress))

\* ------------------------------------------------------------------------
\* Properties of the bot's scans (checked under SpecBot)
\* ------------------------------------------------------------------------

\* a walk of a destination begins
WalkBegins == scanPc # "walking" /\ scanPc' = "walking"

\* C12: once /cancel arrived while executeScan is in progress, the scan walks
\* no further destination, and when executeScan ends the results accumulated
\* so far are shown
C12_CancelStopsScan ==
  [][exec.cancelRequested
       => /\ ~WalkBegins
          /\ exec'.pc = "idle" => shown'.kind = "results"]_vars

\* the configuration of the last scan request is invalid: no source wallet,
\* or a filter that is missing or of no known type
InvalidConfiguration ==
  /\ scanEntry.path # NULL
  /\ \/ scanEntry.wallets = << >>
     \/ scanEntry.filter.type \notin {"range", "target"}

\* C13: a scan request with an invalid configuration, by scan_now or
\* run_again in any session state or by a direct scanExchangeWallets call, is
\* rejected and no ledger request is sent for it
C13_InvalidConfigurationRejected ==
  InvalidConfiguration => scanEntry.rejected /\ network = << >>

\* ------------------------------------------------------------------------
\* Properties of getFirstTransactions and getTotalTransactionCount
\* (checked under SpecClient)
\* ------------------------------------------------------------------------

\* the position of a listed entry in the history of the account, oldest first
Age(w, sig) ==
  CHOOSE i \in 1..Len(SignaturesOf(w)) :
    Reverse(SignaturesOf(w))[i].signature = sig.signature

\* C21: getFirstTransactions(account, n) returns at most n transactions,
\* oldest first, each of them among the n chronologically earliest entries of
\* the history of the account, and it requests the detail of at most n
\* signatures
C21_FirstTransactionsEarliest ==
  op.name = "getFirstTransactions"
    => /\ Len(SelectSeq(network, LAMBDA r : r.kind = "details")) <= op.limit
       /\ op.pc = "returned"
            => /\ Len(op.result) <= op.limit
               /\ \A i \in 1..Len(op.result) :
                    /\ Age(op.walletAddress, op.result[i]) <= op.limit
                    /\ \A j \in 1..(i - 1) :
                         Age(op.walletAddress, op.result[j])
                           < Age(op.walletAddress, op.result[i])

\* C22: getTotalTransactionCount(account) returns the number of transactions
\* of the account when it is below CountCap and CountCap otherwise
C22_TotalCountSaturates ==
  (op.name = "getTotalTransactionCount" /\ op.pc = "returned")
    => op.result = Min(Len(SignaturesOf(op.walletAddress)), CountCap)

\* ------------------------------------------------------------------------
\* Wallets that only received (checked under Spec)
\* ------------------------------------------------------------------------

\* every transaction of w is a receive, and there is one at least
OnlyReceives(w) ==
  /\ SignaturesOf(w) # << >>
  /\ \A i \in 1..Len(SignaturesOf(w)) :
       getTransactionType(w, SignaturesOf(w)[i]) = "RECEIVE"

C24_CancelledSessionStaysReset ==
  [][/\ exec'.cancelRequested => session' = NewSession
     /\ exec.cancelRequested => session' = NewSession]_vars

\* ------------------------------------------------------------------------
\* The windows of analyzeWithDynamicLimit (checked under SpecAnalyzer)
\* ------------------------------------------------------------------------

\* C25: the window sizes analyzeWithDynamicLimit passes to
\* analyzeFirstTransactions, in the order of the calls, are strictly
\* increasing and none exceeds maxTxToTry
C25_WindowsIncreaseWithinMax ==
  /\ \A k \in 1..Len(dynamic.tried) : dynamic.tried[k].limit <= dynamic.maxTxToTry
  /\ \A k \in 1..(Len(dynamic.tried) - 1) :
       dynamic.tried[k].limit < dynamic.tried[k + 1].limit

PositionsOf(account, tx) ==
  IF "accountKeys" \notin DOMAIN tx \/ "preBalances" \notin DOMAIN tx THEN {}
  ELSE {i \in 1..Len(tx.accountKeys) :
          /\ tx.accountKeys[i] = account
          /\ i <= Len(tx.preBalances) /\ i <= Len(tx.postBalances)}

DeltaAt(tx, i) == tx.postBalances[i] - tx.preBalances[i]

C27_TypeBySignedDelta ==
  direct.name = "getTransactionType" =>
    /\ direct.pc = "returned"
    /\ direct.result \in {"RECEIVE", "WITHDRAW", "UNKNOWN"}
    /\ direct.result = "RECEIVE" <=>
         \E i \in PositionsOf(direct.wallet, direct.transaction) :
           DeltaAt(direct.transaction, i) > 1000
    /\ direct.result = "WITHDRAW" <=>
         \E i \in PositionsOf(direct.wallet, direct.transaction) :
           DeltaAt(direct.transaction, i) < -1000

\* a rise of 1001 lamports is classified as a receive
C27_Witness ==
  /\ direct.name = "getTransactionType" /\ direct.pc = "returned"
  /\ direct.result = "RECEIVE"
  /\ \E i \in PositionsOf(direct.wallet, direct.transaction) :
       DeltaAt(direct.transaction, i) = 1001

\* ------------------------------------------------------------------------
\* C28: getWithdrawDestination(source, tx) returns the first address in
\* account-key order that is not the source, is not in the system-program
\* exclusion list and whose balance rose by more than 1000 lamports; it
\* returns null when no address qualifies or the source is not involved; it
\* never returns the source nor an excluded program, and never throws.
\* ------------------------------------------------------------------------

Excluded ==
  {"11111111111111111111111111111111",
   "TokenkegQfeZyiNwAJbNbGKPFXCWuBvf9Ss623VQ5DA",
   "ATokenGPvbdGVxr1b2hvZbsiqW5xWH25efTNsLJA8knL",
   "ComputeBudget111111111111111111111111111111",
   "SysvarRent111111111111111111111111111111111",
   "SysvarC1ock11111111111111111111111111111111"}

\* the positions of the addresses that qualify as the destination
Qualifying(source, tx) ==
  IF \/ "accountKeys" \notin DOMAIN tx \/ "preBalances" \notin DOMAIN tx
     \/ \A i \in 1..Len(tx.accountKeys) : tx.accountKeys[i] # source
  THEN {}
  ELSE {i \in 1..Len(tx.accountKeys) :
          /\ tx.accountKeys[i] # source
          /\ tx.accountKeys[i] \notin Excluded
          /\ i \in PositionsOf(tx.accountKeys[i], tx)
          /\ DeltaAt(tx, i) > 1000}

C28_DestinationIsFirstGainer ==
  direct.name = "getWithdrawDestination" =>
    LET q == Qualifying(direct.wallet, direct.transaction)
    IN  /\ direct.pc = "returned"
        /\ direct.result # direct.wallet
        /\ direct.result \notin Excluded
        /\ q = {} => direct.result = NULL
        /\ q # {} =>
             \E i \in q : /\ direct.result = direct.transaction.accountKeys[i]
                           /\ \A j \in q : i <= j

\* the system program gained more than the threshold and comes first, the
\* address after it is returned
C28_Witness ==
  /\ direct.name = "getWithdrawDestination" /\ direct.pc = "returned"
  /\ direct.wallet = "S1" /\ direct.result = "A"
  /\ \E i \in PositionsOf("A", direct.transaction) :
       /\ i > 1
       /\ direct.transaction.accountKeys[i - 1] = SYS
       /\ DeltaAt(direct.transaction, i - 1) > 1000

\* ------------------------------------------------------------------------
\* C29: the transfer attributed to a destination is deterministic. A source
\* wallet's matching transfers are listed newest first with the transfers
\* without timestamp last, and the first transfer to the destination in that
\* order is the attributed one, however the concurrent detail fetches of the
\* listing interleave.
\* ------------------------------------------------------------------------

\* the position in the listing of the entry a transfer was read from
ListedAt(toFetch, tx) ==
  CHOOSE k \in 1..Len(toFetch) : toFetch[k].signature = tx.signature

\* t comes before u: it is newer, or u alone has no timestamp, or neither
\* decides and t was listed first
ComesBefore(toFetch, t, u) ==
  IF Falsy(t.timestamp) # Falsy(u.timestamp) THEN Falsy(u.timestamp)
  ELSE IF ~Falsy(t.timestamp) /\ t.timestamp # u.timestamp THEN t.timestamp > u.timestamp
  ELSE ListedAt(toFetch, t) < ListedAt(toFetch, u)

DetailRequested(k) ==
  \E r \in 1..Len(network) :
    network[r].kind = "details" /\ network[r].arg = op.toFetch[k].signature

\* the fetches that were started and have not completed
UnderWay == {k \in 1..Len(op.slots) : op.slots[k] = "pending"}

C30_BatchesOfThree ==
  op.pc = "details" =>
    /\ Cardinality(UnderWay) <= 3
    /\ \A k \in UnderWay : op.i + k <= Len(op.toFetch)
    /\ \A j \in 1..Len(op.toFetch) :
         DetailRequested(j) =>
           /\ j <= op.i + Len(op.slots)
           /\ \A k \in 1..Len(op.toFetch) :
                (k - 1) \div 3 < (j - 1) \div 3 => DetailRequested(k)
    /\ \A k \in 1..Len(op.slots) :
         DetailRequested(op.i + k) <=> k \notin UnderWay

\* the second batch of a listing is under way: the three fetches of the first
\* batch were made, one of them failed, and one fetch of the second is pending
C30_Witness ==
  /\ op.pc = "details"
  /\ op.i = 3
  /\ UnderWay # {}
  /\ \A k \in 1..3 : DetailRequested(k)
  /\ op.failed # {}

\* ------------------------------------------------------------------------
\* C31: no cache entry written while one executeScan runs is ever read by
\* another executeScan, whether the two calls follow one another or
\* interleave: the cache a call looks a destination up in holds only entries
\* that call wrote, and every entry a call has read was written by it.
\* ------------------------------------------------------------------------
C31_CacheIsolation ==
  \A r \in 1..MaxRuns :
    /\ runs[r].hits \subseteq {r}
    /\ runs[r].pc = "scanning" =>
         \A w \in DOMAIN caches[runs[r].detector] :
           caches[runs[r].detector][w].writer = r

\* two calls are in their second pass at once, and each has cached its own
\* result for destination A
C31_Witness ==
  \E r, q \in 1..MaxRuns :
    /\ r # q
    /\ runs[r].pc = "scanning" /\ runs[q].pc = "scanning"
    /\ runs[r].detector # runs[q].detector
    /\ "A" \in DOMAIN caches[runs[r].detector]
    /\ "A" \in DOMAIN caches[runs[q].detector]

\* ------------------------------------------------------------------------
\* C36: in one executeScan over several selected exchanges each destination
\* is walked at most once and appears at most once in the final result list,
\* also when wallets of two selected exchanges both sent it a matching
\* transfer.
\* ------------------------------------------------------------------------
C36_DestinationOncePerRun ==
  \A r \in 1..MaxRuns :
    /\ \A i, j \in 1..Len(runs[r].walked) :
         i # j => runs[r].walked[i] # runs[r].walked[j]
    /\ \A i, j \in 1..Len(runs[r].allResults) :
         i # j => runs[r].allResults[i].wallet # runs[r].allResults[j].wallet

\* ------------------------------------------------------------------------
\* C37: after executeScan has scanned all selected exchanges, the tracker's
\* freshWalletsFound equals the number of fresh results in the final result
\* list, and walletsScanned equals the number of destinations processed.
\* ------------------------------------------------------------------------
C37_TrackerCountersAgree ==
  \A r \in 1..MaxRuns :
    runs[r].pc = "done" =>
      /\ runs[r].stats.freshWalletsFound = Len(runs[r].allResults)
      /\ runs[r].stats.walletsScanned = runs[r].processed

\* ------------------------------------------------------------------------
\* C38: the API-request total reported at the end of a scan equals the
\* number of rate-limited ledger requests issued on behalf of that scan, also
\* when a second scan runs concurrently on the shared SolanaService.
\* ------------------------------------------------------------------------
C38_ReportedRequestsAreOwn ==
  \A r \in 1..MaxRuns :
    runs[r].pc = "done" => runs[r].reported = runs[r].issued

\* ------------------------------------------------------------------------
\* C32: whenever detectFreshWallet, in either mode, returns isFresh = true,
\* the final account has at most one transaction in the ledger and, if it has
\* one, that transaction is a credit to it, whatever detail fetches failed
\* during the walk.
\* ------------------------------------------------------------------------
C32_FreshVerdictSound ==
  (walkPc = "done" /\ result.isFresh)
    => LET signatures == SignaturesOf(result.finalWallet)
       IN  /\ Len(signatures) <= 1
           /\ Len(signatures) = 1
                => getTransactionType(result.finalWallet, signatures[1]) = "RECEIVE"

\* ------------------------------------------------------------------------
\* C33: if the ledger request that counts an account's transactions fails,
\* the walk does not report that account as fresh: no walk that returns
\* fresh rests on a strict verification whose count request failed.
\* ------------------------------------------------------------------------
C33_CountFailureNotFresh ==
  (walkPc = "done" /\ result.isFresh)
    => \A i \in 1..Len(verifications) :
         verifications[i].wallet = result.finalWallet
           => ~verifications[i].countFailed


\* the earliest n transactions of an account, as the ledger holds them
EarliestOf(a, n) == Slice(SortChronologically(SignaturesOf(a)), n)

\* C34: whenever analyzeWithDynamicLimit(account, maxN) returns HOP, the
\* account has exactly one debit among its earliest maxN transactions; an
\* account with two or more debits there is never followed as a relay.
C34_RelayHasOneDebit ==
  (dynamic.pc = "returned" /\ dynamic.analysis.pattern = "HOP")
    => Len(DebitsOf(dynamic.walletAddress,
                    EarliestOf(dynamic.walletAddress, dynamic.maxTxToTry))) = 1


WalkRunning == walkPc \in {"simple", "loop", "analyzed"}
WalkEnded == walkPc \in {"done", "thrown"}

\* C35: every detectFreshWallet call terminates on every finite ledger,
\* relay cycles and chains longer than the budget included: a walk makes at
\* most this.maxHops pattern analyses and at most one verifyFinalWallet call,
\* and a walk that has begun ends (it returns a result, or rejects when a
\* ledger request rejects).
WalkWithinBudget == analyses <= maxHops /\ Len(verifications) <= 1

C35_WalkTerminatesWithinBudget ==
  /\ []WalkWithinBudget
  /\ WalkRunning ~> WalkEnded

\* a walk over a chain longer than the budget has ended after this.maxHops
\* analyses and one verification
C35_Witness ==
  /\ walkPc = "done"
  /\ walk.mode = "hopping"
  /\ analyses = maxHops
  /\ hops = maxHops
  /\ Len(verifications) = 1
  /\ analysis.pattern = "HOP"


\* C39: every call of executeScan leaves the session in state RESULTS (scan
\* completed) or IDLE (scan failed); once executeScan has returned, the early
\* returns for a missing exchange, scan type or time range included, the
\* session is not in state SCANNING.
C39_ScanLeavesScanning ==
  exec.pc = NoExec.pc => session.state # "SCANNING"


ValidFilter(filter) ==
  \/ filter = NoFilter
  \/ /\ filter.type = "range"
     /\ 0 <= filter.min /\ filter.min < filter.max
     /\ filter.max - filter.min <= 8000
  \/ /\ filter.type = "target"
     /\ filter.value > 0
     /\ filter.tolerance = 10

\* C40: in every reachable session state, whatever commands, callbacks and
\* text messages came before, session.filter is null or a valid filter (a
\* range with 0 <= min < max and max - min <= 8, or a target with value > 0
\* and tolerance 0.10), session.timeRange is null or 0 < hours <= 72,
\* session.scanType is null, 'simple' or 'hopping', and a text message
\* changes the filter only in state FILTER_INPUT and the time range only in
\* state CUSTOM_TIME_INPUT.
C40_SessionFieldsValid ==
  /\ ValidFilter(session.filter)
  /\ session.timeRange = 0 \/ (0 < session.timeRange /\ session.timeRange <= 72000)
  /\ session.scanType \in {NULL, "simple", "hopping"}
  /\ \A parts \in Texts :
       LET after == handleTextMessage(session, parts)
       IN  /\ after.filter # session.filter => session.state = "FILTER_INPUT"
           /\ after.timeRange # session.timeRange => session.state = "CUSTOM_TIME_INPUT"

\* a session whose filter and time range were typed: the widest range and
\* half an hour
C40_Witness ==
  /\ session.filter.type = "range"
  /\ session.filter.min = 0 /\ session.filter.max = 8000
  /\ session.timeRange = 500
  /\ session.scanType = "hopping"

====
